---- MODULE Spec2Model ----
(***************************************************************************)
(* Financial calculation and evolution engine of the dashboard backend:    *)
(* CalculationService, ControleMetricsService, EvolutionService over the   *)
(* Commande and ControleDepense tables.                                    *)
(*                                                                         *)
(* Amounts are Decimal columns; they are modelled as integers counted in   *)
(* the smallest unit of the column, and the database arithmetic (numeric   *)
(* sum, difference, product) is exact.  A quotient of two Decimals is      *)
(* kept as the reduced fraction <<n, d>>.  A nullable value is <<>>        *)
(* (None) or <<v>>.                                                        *)
(* The Commande table is a bag of rows: rows differ otherwise only by      *)
(* their primary key, which none of the modelled queries reads.            *)
(***************************************************************************)
EXTENDS Integers, Sequences, FiniteSets, Bags, TLC

VARIABLES commandes, projects, controles, result,
          facturations, avancements, syncs

vars == <<commandes, projects, controles, result, facturations, avancements, syncs>>

\* ------------------------------------------------------------------ bounds
MaxCommandes == 2
MaxQty == 3
MaxControles == 1
MaxMonth == 2
MaxPrix == 4
MaxFin == 8

\* --------------------------------------------------------- nullable values
None == <<>>
Some(v) == <<v>>
NoneStr == "<None>"

\* python truthiness of an optional string argument: None and "" are falsy
Truthy(s) == s # NoneStr /\ s # ""

\* python `x or Decimal("0")` on an optional Decimal
OrZero(x) == IF x = None THEN 0 ELSE x[1]

\* ------------------------------------------------------------ constants.py
PROJECT_NAME_MAP ==
  [c \in {"PROJ-2024-A", "PROJ-2024-B"} |->
     IF c = "PROJ-2024-A" THEN [name |-> "PROJA", type |-> "FORFAIT"]
                          ELSE [name |-> "PROJB", type |-> "METRE"]]

get_project_name(code) ==
  IF code \in DOMAIN PROJECT_NAME_MAP THEN PROJECT_NAME_MAP[code].name ELSE code

get_project_type(code) ==
  IF code \in DOMAIN PROJECT_NAME_MAP THEN PROJECT_NAME_MAP[code].type ELSE "FORFAIT"

\* ------------------------------------------------------- database helpers
RECURSIVE SumF(_)
SumF(f) ==
  IF DOMAIN f = {} THEN 0
  ELSE LET x == CHOOSE y \in DOMAIN f : TRUE
       IN  f[x] + SumF([y \in DOMAIN f \ {x} |-> f[y]])

\* QuerySet.filter: the rows S of bag B, with their multiplicity
Filter(B, S) == [c \in S |-> B[c]]

\* QuerySet.aggregate(total=Sum(expr)): SQL SUM is NULL over no rows
AggregateSum(B, expr) ==
  IF DOMAIN B = {} THEN None
  ELSE Some(SumF([c \in DOMAIN B |-> B[c] * expr[c]]))

\* Case(When(cours_change=0, then=1), default=F("cours_change"))
CoursChangeAdjusted(c) == IF c.cours_change = 0 THEN 1 ELSE c.cours_change

\* the filter chain shared by the four calculate_depenses_* methods
BaseQueryNoAnnule(B, numero_article, code_projet) ==
  Filter(B, {c \in DOMAIN B :
       /\ (Truthy(numero_article) => c.numero_article = numero_article)
       /\ (Truthy(code_projet) => c.code_projet = code_projet)})

BaseQuery(B, numero_article, code_projet) ==
  Filter(B, {c \in DOMAIN B :
       /\ c.annule = "N"
       /\ (Truthy(numero_article) => c.numero_article = numero_article)
       /\ (Truthy(code_projet) => c.code_projet = code_projet)})

\* ------------------------------------------------------ CalculationService
calculate_depenses_engagees(B, numero_article, code_projet) ==
  LET query == BaseQuery(B, numero_article, code_projet)
      result_total == AggregateSum(query, [c \in DOMAIN query |-> c.total_lignes])
  IN  OrZero(result_total)

calculate_depenses_facturees_no_en_cours(B, numero_article, code_projet) ==
  LET query == BaseQuery(B, numero_article, code_projet)
  IN  OrZero(AggregateSum(query, [c \in DOMAIN query |->
               c.prix * c.quantite * CoursChangeAdjusted(c)]))

calculate_depenses_facturees(B, numero_article, code_projet) ==
  LET query == BaseQuery(B, numero_article, code_projet)
      result_total ==
        AggregateSum(query, [c \in DOMAIN query |->
          c.prix * (c.quantite - c.quantite_en_cours) * CoursChangeAdjusted(c)])
  IN  OrZero(result_total)

calculate_depenses_facturees_reel_ordered(B, numero_article, code_projet) ==
  LET query == BaseQuery(B, numero_article, code_projet)
  IN  OrZero(AggregateSum(query, [c \in DOMAIN query |->
               c.quantite * c.prix * CoursChangeAdjusted(c)]))

calculate_depenses_facturees_reel(B, numero_article, code_projet) ==
  LET query == BaseQuery(B, numero_article, code_projet)
      result_total ==
        AggregateSum(query, [c \in DOMAIN query |->
          c.quantite_livree * c.prix * CoursChangeAdjusted(c)])
  IN  OrZero(result_total)

calculate_depenses_engagees_reel_all_delivered(B, numero_article, code_projet) ==
  LET query == BaseQuery(B, numero_article, code_projet)
      both == Filter(query, {c \in DOMAIN query : c.statut_document \in {"O", "C"}})
  IN  OrZero(AggregateSum(both, [c \in DOMAIN both |->
               c.quantite_livree * c.prix * CoursChangeAdjusted(c)]))

calculate_depenses_engagees_reel_all_ordered(B, numero_article, code_projet) ==
  LET query == BaseQuery(B, numero_article, code_projet)
      both == Filter(query, {c \in DOMAIN query : c.statut_document \in {"O", "C"}})
  IN  OrZero(AggregateSum(both, [c \in DOMAIN both |->
               c.quantite * c.prix * CoursChangeAdjusted(c)]))

calculate_depenses_engagees_reel(B, numero_article, code_projet) ==
  LET query == BaseQuery(B, numero_article, code_projet)
      open == Filter(query, {c \in DOMAIN query : c.statut_document = "O"})
      closed == Filter(query, {c \in DOMAIN query : c.statut_document = "C"})
      open_result ==
        AggregateSum(open, [c \in DOMAIN open |->
          c.quantite * c.prix * CoursChangeAdjusted(c)])
      closed_result ==
        AggregateSum(closed, [c \in DOMAIN closed |->
          c.quantite_livree * c.prix * CoursChangeAdjusted(c)])
      open_total == OrZero(open_result)
      closed_total == OrZero(closed_result)
  IN  open_total + closed_total

\* Decimal division, kept as a reduced fraction <<numerator, denominator>>
RECURSIVE GCD(_, _)
GCD(a, b) == IF b = 0 THEN a ELSE GCD(b, a % b)

Div(a, b) == LET g == GCD(a, b) IN <<a \div g, b \div g>>

\* Decimal("0") where a ratio is returned
Zero == <<0, 1>>

calculate_fin_chantier_ignores_reste(depenses_engagees, reste_a_depenser) ==
  depenses_engagees

calculate_fin_chantier(depenses_engagees, reste_a_depenser) ==
  LET reste == OrZero(reste_a_depenser)
  IN  depenses_engagees + reste

calculate_rentabilite_inverted(prix_vente, fin_chantier) ==
  LET prix == OrZero(prix_vente)
  IN  IF fin_chantier = 0 \/ prix = 0 THEN Zero ELSE Div(prix, fin_chantier)

calculate_rentabilite(prix_vente, fin_chantier) ==
  LET prix == OrZero(prix_vente)
  IN  IF fin_chantier = 0 \/ prix = 0 THEN Zero ELSE Div(fin_chantier, prix)

calculate_rentabilite_reel(prix_vente, fin_chantier_reel) ==
  LET prix == OrZero(prix_vente)
  IN  IF fin_chantier_reel = 0 \/ prix = 0 THEN Zero ELSE Div(fin_chantier_reel, prix)

get_reste_a_depenser == 0

get_summary_metrics(B, numero_article, code_projet, prix_vente) ==
  LET depenses_engagees == calculate_depenses_engagees(B, numero_article, code_projet)
      depenses_facturees == calculate_depenses_facturees(B, numero_article, code_projet)
      depenses_engagees_reel ==
        calculate_depenses_engagees_reel(B, numero_article, code_projet)
      depenses_facturees_reel ==
        calculate_depenses_facturees_reel(B, numero_article, code_projet)
      reste_a_depenser == get_reste_a_depenser
      fin_chantier == calculate_fin_chantier(depenses_engagees, Some(reste_a_depenser))
      fin_chantier_reel ==
        calculate_fin_chantier(depenses_engagees_reel, Some(reste_a_depenser))
      prix == Some(OrZero(prix_vente))
  IN  [depenses_engagees |-> depenses_engagees,
       depenses_facturees |-> depenses_facturees,
       depenses_engagees_reel |-> depenses_engagees_reel,
       depenses_facturees_reel |-> depenses_facturees_reel,
       reste_a_depenser |-> reste_a_depenser,
       fin_chantier |-> fin_chantier,
       fin_chantier_reel |-> fin_chantier_reel,
       rentabilite |-> calculate_rentabilite(prix, fin_chantier),
       rentabilite_reel |-> calculate_rentabilite_reel(prix, fin_chantier_reel)]

\* ---------------------------------------------------- ControleBaseService
\* validate_record: the article number is required; a record without project
\* code takes the code of a commande of its article
validate_record(B, controle) ==
  IF controle.numero_article = "" THEN FALSE
  ELSE IF controle.code_projet = ""
       THEN \E c \in DOMAIN B : c.numero_article = controle.numero_article
       ELSE TRUE

\* a date is <<month, day>>, months counted from the first one on record
DateLeq(a, b) == a[1] < b[1] \/ (a[1] = b[1] /\ a[2] <= b[2])

\* Commande.objects.filter(numero_article=...).first(): Meta.ordering is
\* -date_enregistrement, so a row of the latest date
first_commande(B, numero_article) ==
  CHOOSE c \in DOMAIN B :
    /\ c.numero_article = numero_article
    /\ \A d \in DOMAIN B : d.numero_article = numero_article
                             => DateLeq(d.date_enregistrement, c.date_enregistrement)

\* the record as validate_record leaves (and saves) it
validated(B, controle) ==
  IF validate_record(B, controle) /\ controle.code_projet = ""
  THEN LET commande == first_commande(B, controle.numero_article)
       IN  [controle EXCEPT !.code_projet = commande.code_projet,
                            !.type_projet = get_project_type(commande.code_projet)]
  ELSE controle

\* update_control_data: get_or_create on (numero_article, code_projet), then
\* only the parameters that are not None are written
update_control_data(C, numero_article, code_projet, type_projet, params) ==
  IF \E r \in C : r.numero_article = numero_article /\ r.code_projet = code_projet
  THEN LET old == CHOOSE r \in C : r.numero_article = numero_article
                                     /\ r.code_projet = code_projet
           new == [numero_article |-> numero_article,
                   code_projet |-> code_projet,
                   type_projet |-> IF type_projet # NoneStr THEN type_projet
                                   ELSE old.type_projet,
                   prix_vente |-> IF params.prix_vente # None
                                  THEN params.prix_vente ELSE old.prix_vente,
                   prix_vente_base |-> IF params.prix_vente_base # None
                                       THEN params.prix_vente_base
                                       ELSE old.prix_vente_base,
                   budget_chef_projet |-> IF params.budget_chef_projet # None
                                          THEN params.budget_chef_projet
                                          ELSE old.budget_chef_projet,
                   budget_chef_projet_base |->
                     IF params.budget_chef_projet_base # None
                     THEN params.budget_chef_projet_base
                     ELSE old.budget_chef_projet_base,
                   reste_a_depenser |-> IF params.reste_a_depenser # None
                                        THEN params.reste_a_depenser
                                        ELSE old.reste_a_depenser,
                   fiabilite |-> IF params.fiabilite # NoneStr
                                 THEN params.fiabilite ELSE old.fiabilite]
       IN  [controles |-> (C \ {old}) \cup {new}, control |-> new]
  ELSE LET new == [numero_article |-> numero_article,
                   code_projet |-> code_projet,
                   type_projet |-> type_projet,
                   prix_vente |-> Some(OrZero(params.prix_vente)),
                   prix_vente_base |-> Some(OrZero(params.prix_vente_base)),
                   budget_chef_projet |-> Some(OrZero(params.budget_chef_projet)),
                   budget_chef_projet_base |->
                     Some(OrZero(params.budget_chef_projet_base)),
                   reste_a_depenser |-> Some(OrZero(params.reste_a_depenser)),
                   fiabilite |-> IF params.fiabilite # NoneStr
                                 THEN params.fiabilite ELSE "E"]
       IN  [controles |-> C \cup {new}, control |-> new]

\* ------------------------------------------------- ControleMetricsService
_calculate_status(rentabilite) ==
  IF rentabilite[1] > rentabilite[2] THEN "Profitable"
  ELSE IF rentabilite[1] = rentabilite[2] THEN "Break-even"
  ELSE "Loss"

\* Model.get_fiabilite_display() or "Non defini"
get_fiabilite_display(fiabilite) ==
  IF fiabilite = "E" THEN "Estime"
  ELSE IF fiabilite = "C" THEN "Chiffre"
  ELSE IF fiabilite = "M" THEN "Marche"
  ELSE "Non defini"

\* the expression of "rapport" divides whenever prix_vente != 0, and None != 0
RapportRaises(controle) ==
  \/ controle.prix_vente = None
  \/ controle.prix_vente # Some(0) /\ controle.budget_chef_projet = None

MetricsProjectTypeStored(controle) == controle.type_projet

MetricsProjectType(controle) == get_project_type(controle.code_projet)

get_article_metrics(B, record) ==
  IF ~validate_record(B, record)
  THEN [raised |-> TRUE, error |-> "ValidationError"]
  ELSE
  LET controle == validated(B, record)
      project_type == MetricsProjectType(controle)
      project_name == get_project_name(controle.code_projet)
      prix_vente_effectif ==
        OrZero(IF project_type = "METRE" THEN controle.prix_vente_base
               ELSE controle.prix_vente)
      budget_effectif ==
        OrZero(IF project_type = "METRE" THEN controle.budget_chef_projet_base
               ELSE controle.budget_chef_projet)
      reste_a_depenser == OrZero(controle.reste_a_depenser)
      summary == get_summary_metrics(B, controle.numero_article,
                                     controle.code_projet, Some(prix_vente_effectif))
      fin_chantier ==
        calculate_fin_chantier(summary.depenses_engagees, Some(reste_a_depenser))
      fin_chantier_reel ==
        calculate_fin_chantier(summary.depenses_engagees_reel, Some(reste_a_depenser))
      rentabilite == calculate_rentabilite(Some(prix_vente_effectif), fin_chantier)
      rentabilite_reel ==
        calculate_rentabilite_reel(Some(prix_vente_effectif), fin_chantier_reel)
  IN  IF RapportRaises(controle)
      THEN [raised |-> TRUE, error |-> "TypeError"]
      ELSE [raised |-> FALSE,
            metrics |->
              [numero_article |-> controle.numero_article,
               code_projet |-> controle.code_projet,
               project_name |-> project_name,
               type_projet |-> project_type,
               prix_vente |-> OrZero(controle.prix_vente),
               prix_vente_base |-> OrZero(controle.prix_vente_base),
               budget_chef_projet |-> OrZero(controle.budget_chef_projet),
               budget_chef_projet_base |-> OrZero(controle.budget_chef_projet_base),
               depenses_engagees |-> summary.depenses_engagees,
               depenses_facturees |-> summary.depenses_facturees,
               fin_chantier |-> fin_chantier,
               rentabilite |-> rentabilite,
               depenses_engagees_reel |-> summary.depenses_engagees_reel,
               depenses_facturees_reel |-> summary.depenses_facturees_reel,
               fin_chantier_reel |-> fin_chantier_reel,
               rentabilite_reel |-> rentabilite_reel,
               reste_a_depenser |-> reste_a_depenser,
               fiabilite |-> get_fiabilite_display(controle.fiabilite),
               rapport |->
                 IF controle.prix_vente # Some(0)
                 THEN Div(controle.budget_chef_projet[1], controle.prix_vente[1])
                 ELSE Zero,
               rapport_atterrissage |->
                 IF prix_vente_effectif # 0
                 THEN Div(budget_effectif, prix_vente_effectif)
                 ELSE Zero,
               status |-> _calculate_status(rentabilite_reel)]]

\* ------------------------------------------------------- EvolutionService
\* TruncMonth: the first day of the month of a date
TruncMonth(date) == <<date[1], 1>>

\* datetime.isoformat of a month start: year-month, day, T00:00:00
isoformat(month) == <<month[1], month[2], 0, 0, 0>>

\* the number of binary digits of a natural number
RECURSIVE BitLength(_)
BitLength(n) == IF n = 0 THEN 0 ELSE 1 + BitLength(n \div 2)

\* the significand of a double: 53 binary digits
MANT_DIG == 53

\* a natural number rounded to the nearest one of `bits` significant binary
\* digits, ties to the even significand
RoundToBits(n, bits) ==
  IF BitLength(n) <= bits THEN n
  ELSE LET unit == 2 ^ (BitLength(n) - bits)
           q == n \div unit
           r == n % unit
       IN  IF 2 * r > unit \/ (2 * r = unit /\ q % 2 = 1) THEN (q + 1) * unit
           ELSE q * unit

\* float(Decimal) of a whole amount: the nearest double
float(x) == IF x < 0 THEN 0 - RoundToBits(0 - x, MANT_DIG) ELSE RoundToBits(x, MANT_DIG)

\* Window(Sum(expr), order_by=month asc, frame=None) at a row of month m: the
\* default frame RANGE UNBOUNDED PRECEDING .. CURRENT ROW takes every row whose
\* month is not after m, the rows of month m included
WindowSumMonthOnly(query, expr, m) ==
  LET frame == Filter(query, {c \in DOMAIN query :
                                 TruncMonth(c.date_enregistrement) = m})
  IN  AggregateSum(frame, [c \in DOMAIN frame |-> expr[c]])

WindowSum(query, expr, m) ==
  LET frame == Filter(query, {c \in DOMAIN query :
                                 DateLeq(TruncMonth(c.date_enregistrement), m)})
  IN  AggregateSum(frame, [c \in DOMAIN frame |-> expr[c]])

\* the same rows computed over the cancelled commandes as well
monthly_data_with_annule(B, code_projet) ==
  LET query == Filter(B, {c \in DOMAIN B : c.code_projet = code_projet})
      depenses == [c \in DOMAIN query |->
                     c.prix * CoursChangeAdjusted(c)
                       * (c.quantite - c.quantite_en_cours)]
      depenses_eng == [c \in DOMAIN query |-> c.total_lignes]
  IN  {[month |-> TruncMonth(c.date_enregistrement),
        depenses_facturees |->
          WindowSum(query, depenses, TruncMonth(c.date_enregistrement)),
        controle |->
          WindowSum(query, depenses_eng, TruncMonth(c.date_enregistrement))] :
         c \in DOMAIN query}

\* .values("month").distinct().annotate(...): the distinct result rows
monthly_data(B, code_projet) ==
  LET query == Filter(B, {c \in DOMAIN B :
                            c.code_projet = code_projet /\ c.annule = "N"})
      depenses == [c \in DOMAIN query |->
                     c.prix * CoursChangeAdjusted(c)
                       * (c.quantite - c.quantite_en_cours)]
      depenses_eng == [c \in DOMAIN query |-> c.total_lignes]
  IN  {[month |-> TruncMonth(c.date_enregistrement),
        depenses_facturees |->
          WindowSum(query, depenses, TruncMonth(c.date_enregistrement)),
        controle |->
          WindowSum(query, depenses_eng, TruncMonth(c.date_enregistrement))] :
         c \in DOMAIN query}

\* .order_by("month"): the rows as a list in ascending month order
RECURSIVE order_by_month(_)
order_by_month(rows) ==
  IF rows = {} THEN <<>>
  ELSE LET r == CHOOSE x \in rows : \A y \in rows : DateLeq(x.month, y.month)
       IN  <<r>> \o order_by_month(rows \ {r})

\* the loop over monthly_data: the first row of every month becomes a point
RECURSIVE evolution_points(_, _)
evolution_points(items, seen_months) ==
  IF items = <<>> THEN <<>>
  ELSE LET item == Head(items)
       IN  IF isoformat(item.month) \notin seen_months
           THEN <<[date |-> isoformat(item.month),
                   depenses_facturees |-> float(OrZero(item.depenses_facturees)),
                   controle |-> float(OrZero(item.controle))]>>
                \o evolution_points(Tail(items),
                                    seen_months \cup {isoformat(item.month)})
           ELSE evolution_points(Tail(items), seen_months)

calculate_evolution_data(B, code_projet) ==
  [controle |-> evolution_points(order_by_month(monthly_data(B, code_projet)), {})]

\* ------------------------------------------------------------------ state
NoResult == [op |-> "none"]

\* no synchronisation is running
NoSyncs == <<>>

Init ==
  /\ commandes = EmptyBag
  /\ projects = {}
  /\ controles = {}
  /\ result = NoResult
  /\ facturations = EmptyBag
  /\ avancements = EmptyBag
  /\ syncs = NoSyncs

create_project_from_commande_overwrite(P, instance) ==
  IF instance.code_projet # ""
  THEN {q \in P : q.code # instance.code_projet}
       \cup {[code |-> instance.code_projet,
               name |-> get_project_name(instance.code_projet),
               type |-> get_project_type(instance.code_projet),
               description |-> instance.numero_document]}
  ELSE P

\* post_save receiver of Commande: Project.objects.get_or_create(code=...)
create_project_from_commande(P, instance) ==
  IF instance.code_projet # "" /\ ~(\E q \in P : q.code = instance.code_projet)
  THEN P \cup {[code |-> instance.code_projet,
                name |-> get_project_name(instance.code_projet),
                type |-> get_project_type(instance.code_projet),
                description |-> instance.numero_document]}
  ELSE P

\* Commande.save: the business rules, then the insert and the post_save signal
CommandeSaveRaisesEnCoursOnly(c) == c.quantite_en_cours > c.quantite

CommandeSaveRaises(c) ==
  c.quantite_en_cours > c.quantite \/ c.quantite_livree > c.quantite

\* CommandeViewSet.create -> Commande.save
CommandeSave(c) ==
  /\ BagCardinality(commandes) < MaxCommandes
  /\ IF CommandeSaveRaises(c)
     THEN /\ UNCHANGED <<commandes, projects>>
          /\ result' = [op |-> "save", raised |-> TRUE]
     ELSE /\ commandes' = commandes (+) SetToBag({c})
          /\ projects' = create_project_from_commande(projects, c)
          /\ result' = [op |-> "save", raised |-> FALSE]
  /\ UNCHANGED <<controles, facturations, avancements, syncs>>

\* CommandeViewSet.update with another quantite -> Commande.save
CommandeUpdateQuantite(c, q) ==
  /\ BagIn(c, commandes)
  /\ q # c.quantite
  /\ LET n == [c EXCEPT !.quantite = q]
     IN  IF CommandeSaveRaises(n)
         THEN /\ UNCHANGED <<commandes, projects>>
              /\ result' = [op |-> "update", raised |-> TRUE, old |-> c, new |-> n]
         ELSE /\ commandes' = (commandes (-) SetToBag({c})) (+) SetToBag({n})
              /\ projects' = create_project_from_commande(projects, n)
              /\ result' = [op |-> "update", raised |-> FALSE, old |-> c, new |-> n]
  /\ UNCHANGED <<controles, facturations, avancements, syncs>>

Query(op, numero_article, code_projet, value) ==
  /\ result' = [op |-> op, numero_article |-> numero_article,
                code_projet |-> code_projet, value |-> value]
  /\ UNCHANGED <<commandes, projects, controles, facturations, avancements, syncs>>

CalcDepensesEngagees(a, p) ==
  Query("calculate_depenses_engagees", a, p,
        calculate_depenses_engagees(commandes, a, p))

CalcDepensesFacturees(a, p) ==
  Query("calculate_depenses_facturees", a, p,
        calculate_depenses_facturees(commandes, a, p))

CalcDepensesFactureesReel(a, p) ==
  Query("calculate_depenses_facturees_reel", a, p,
        calculate_depenses_facturees_reel(commandes, a, p))

CalcDepensesEngageesReel(a, p) ==
  Query("calculate_depenses_engagees_reel", a, p,
        calculate_depenses_engagees_reel(commandes, a, p))

\* --------------------------------------------- inputs of the calculations
Articles == {"A1", "A2"}
Projets == {"PROJ-2024-A", "PROJ-2024-B"}
ArticleArgs == {NoneStr, "", "A1"}
ProjetArgs == {NoneStr, "PROJ-2024-B"}

\* live rows of every document status, and cancelled open orders
CalcCommandes ==
  [numero_document : {1}, annule : {"N"}, statut_document : {"O", "C", "P"},
   date_enregistrement : {<<0, 1>>}, numero_article : Articles, code_projet : Projets,
   quantite : {MaxQty}, quantite_livree : {1}, quantite_en_cours : {1},
   prix : {3}, cours_change : {0, 2}, total_lignes : {5}]
  \cup
  [numero_document : {1}, annule : {"Y"}, statut_document : {"O"},
   date_enregistrement : {<<0, 1>>}, numero_article : Articles, code_projet : Projets,
   quantite : {MaxQty}, quantite_livree : {1}, quantite_en_cours : {1},
   prix : {3}, cours_change : {0, 2}, total_lignes : {5}]

NextCalc ==
  \/ \E c \in CalcCommandes : CommandeSave(c)
  \/ \E a \in ArticleArgs, p \in ProjetArgs : CalcDepensesEngagees(a, p)
  \/ \E a \in ArticleArgs, p \in ProjetArgs : CalcDepensesFacturees(a, p)
  \/ \E a \in ArticleArgs, p \in ProjetArgs : CalcDepensesFactureesReel(a, p)
  \/ \E a \in ArticleArgs, p \in ProjetArgs : CalcDepensesEngageesReel(a, p)

SpecCalc == Init /\ [][NextCalc]_vars

\* the rows a call with the given filters is about
Matching(a, p) ==
  {c \in BagToSet(commandes) :
     /\ c.annule = "N"
     /\ (a \in Articles => c.numero_article = a)
     /\ (p \in Projets => c.code_projet = p)}

\* sum of term(c) over the set S of rows of the table, each counted as often as stored
RECURSIVE SumRows(_, _)
SumRows(S, term) ==
  IF S = {} THEN 0
  ELSE LET c == CHOOSE d \in S : TRUE
       IN  CopiesIn(c, commandes) * term[c] + SumRows(S \ {c}, term)

Rate(c) == IF c.cours_change = 0 THEN 1 ELSE c.cours_change

\* C1: calculate_depenses_engagees returns the sum of total_lignes over the
\* non-cancelled commandes matching every given filter, and 0 when there is none
C1_DepensesEngagees ==
  result.op = "calculate_depenses_engagees" =>
    LET S == Matching(result.numero_article, result.code_projet)
    IN  /\ result.value = SumRows(S, [c \in S |-> c.total_lignes])
        /\ (S = {} => result.value = 0)

C1_Witness ==
  /\ result.op = "calculate_depenses_engagees"
  /\ result.numero_article = "A1" /\ result.code_projet = "PROJ-2024-B"
  /\ result.value = 10
  /\ \E c \in BagToSet(commandes) : c.annule = "N" /\ c.numero_article = "A1"
                                      /\ c.code_projet = "PROJ-2024-B"

\* C2: calculate_depenses_facturees returns the sum of
\* prix * (quantite - quantite_en_cours) * rate over the non-cancelled matching
\* commandes, a cours_change of 0 counting as 1, and 0 when there is none
C2_DepensesFacturees ==
  result.op = "calculate_depenses_facturees" =>
    LET S == Matching(result.numero_article, result.code_projet)
    IN  /\ result.value =
             SumRows(S, [c \in S |->
                           c.prix * (c.quantite - c.quantite_en_cours) * Rate(c)])
        /\ (S = {} => result.value = 0)

C2_Witness ==
  /\ result.op = "calculate_depenses_facturees"
  /\ result.value > 0
  /\ \E c, d \in Matching(result.numero_article, result.code_projet) :
        c.cours_change = 0 /\ d.cours_change > 1

\* C3: calculate_depenses_facturees_reel returns the sum of
\* quantite_livree * prix * rate over the non-cancelled matching commandes, a
\* cours_change of 0 counting as 1, and 0 when there is none
C3_DepensesFactureesReel ==
  result.op = "calculate_depenses_facturees_reel" =>
    LET S == Matching(result.numero_article, result.code_projet)
    IN  /\ result.value =
             SumRows(S, [c \in S |-> c.quantite_livree * c.prix * Rate(c)])
        /\ (S = {} => result.value = 0)

C3_Witness ==
  /\ result.op = "calculate_depenses_facturees_reel"
  /\ result.value > 0
  /\ \E c, d \in Matching(result.numero_article, result.code_projet) :
        c.cours_change = 0 /\ d.cours_change > 1 /\ c.quantite_livree < c.quantite

CalcFinChantier(depenses_engagees, reste_a_depenser) ==
  /\ result' = [op |-> "calculate_fin_chantier",
                depenses_engagees |-> depenses_engagees,
                reste_a_depenser |-> reste_a_depenser,
                value |-> calculate_fin_chantier(depenses_engagees, reste_a_depenser)]
  /\ UNCHANGED <<commandes, projects, controles, facturations, avancements, syncs>>

CalcRentabilite(prix_vente, fin_chantier) ==
  /\ result' = [op |-> "calculate_rentabilite", prix_vente |-> prix_vente,
                fin_chantier |-> fin_chantier,
                value |-> calculate_rentabilite(prix_vente, fin_chantier)]
  /\ UNCHANGED <<commandes, projects, controles, facturations, avancements, syncs>>

CalcRentabiliteReel(prix_vente, fin_chantier_reel) ==
  /\ result' = [op |-> "calculate_rentabilite_reel", prix_vente |-> prix_vente,
                fin_chantier |-> fin_chantier_reel,
                value |-> calculate_rentabilite_reel(prix_vente, fin_chantier_reel)]
  /\ UNCHANGED <<commandes, projects, controles, facturations, avancements, syncs>>

OptionalPrix == {None} \cup {Some(v) : v \in 0..MaxPrix}

NextFormulas ==
  \/ \E d \in 0..MaxFin, r \in OptionalPrix : CalcFinChantier(d, r)
  \/ \E pv \in OptionalPrix, f \in 0..MaxFin : CalcRentabilite(pv, f)
  \/ \E pv \in OptionalPrix, f \in 0..MaxFin : CalcRentabiliteReel(pv, f)

SpecFormulas == Init /\ [][NextFormulas]_vars

\* the ratio v is the quotient n / d
IsQuotient(v, n, d) == v[2] > 0 /\ v[1] * d = n * v[2]

\* C5: calculate_rentabilite and calculate_rentabilite_reel return
\* fin_chantier / prix_vente when both are non-zero, and 0 when prix_vente is
\* null or 0 or fin_chantier is 0
C5_Rentabilite ==
  result.op \in {"calculate_rentabilite", "calculate_rentabilite_reel"} =>
    IF result.prix_vente # None /\ result.prix_vente # <<0>> /\ result.fin_chantier # 0
    THEN IsQuotient(result.value, result.fin_chantier, result.prix_vente[1])
    ELSE result.value = <<0, 1>>

C5_Witness ==
  /\ result.op = "calculate_rentabilite"
  /\ result.prix_vente = <<2>> /\ result.fin_chantier = 3
  /\ result.value = <<3, 2>>

\* ------------------------------------------------- controle record actions
\* ControleDepenseViewSet.create: the four amounts are optional and nullable,
\* reste_a_depenser takes the column default; a duplicate key is refused
ControleCreate(rec) ==
  /\ Cardinality(controles) < MaxControles
  /\ IF \E r \in controles : r.numero_article = rec.numero_article
                               /\ r.code_projet = rec.code_projet
     THEN /\ UNCHANGED controles
          /\ result' = [op |-> "controle_create", created |-> FALSE]
     ELSE /\ controles' = controles \cup {rec}
          /\ result' = [op |-> "controle_create", created |-> TRUE]
  /\ UNCHANGED <<commandes, projects, facturations, avancements, syncs>>

\* ControleDepenseViewSet.destroy
ControleDestroy(rec) ==
  /\ rec \in controles
  /\ controles' = controles \ {rec}
  /\ result' = [op |-> "controle_destroy"]
  /\ UNCHANGED <<commandes, projects, facturations, avancements, syncs>>

\* ControleDepenseViewSet.update_control with a project code: the type comes
\* from the code, update_control_data writes, get_article_metrics answers
UpdateControl(numero_article, code_projet, params) ==
  /\ LET upd == update_control_data(controles, numero_article, code_projet,
                                    get_project_type(code_projet), params)
     IN  /\ Cardinality(upd.controles) <= MaxControles
         /\ controles' = upd.controles
         /\ result' = [op |-> "update_control", controle |-> upd.control,
                       out |-> get_article_metrics(commandes, upd.control)]
  /\ UNCHANGED <<commandes, projects, facturations, avancements, syncs>>

\* get_article_metrics on a stored record, as get_all_metrics calls it
GetArticleMetrics(rec) ==
  /\ rec \in controles
  /\ controles' = (controles \ {rec}) \cup {validated(commandes, rec)}
  /\ result' = [op |-> "get_article_metrics", controle |-> rec,
                out |-> get_article_metrics(commandes, rec)]
  /\ UNCHANGED <<commandes, projects, facturations, avancements, syncs>>

\* python truthiness of an optional Decimal: None and 0 are falsy
TruthyDecimal(x) == x # None /\ x[1] # 0

\* ControleDepense.rapport_atterrissage, by the stored type_projet
rapport_atterrissage(controle) ==
  IF controle.type_projet = "METRE"
  THEN IF ~TruthyDecimal(controle.prix_vente_base) THEN Zero
       ELSE IF ~TruthyDecimal(controle.budget_chef_projet_base) THEN Zero
       ELSE Div(controle.budget_chef_projet_base[1], controle.prix_vente_base[1])
  ELSE Zero

\* a read of the rapport_atterrissage property of a stored record
ReadRapportAtterrissage(rec) ==
  /\ rec \in controles
  /\ result' = [op |-> "rapport_atterrissage", controle |-> rec,
                value |-> rapport_atterrissage(rec)]
  /\ UNCHANGED <<commandes, projects, controles, facturations, avancements, syncs>>

\* ----------------------------------------------------- inputs of the metrics
MetricsProjets == {"PROJ-2024-A", "PROJ-2024-B", "PROJ-X"}

\* records of the METRE project with every amount null, zero or positive;
\* of the FORFAIT project with every standard amount null, zero or positive;
\* and a record of a project that PROJECT_NAME_MAP does not list
MetricsControles ==
  [numero_article : {"A1"}, code_projet : {"PROJ-2024-B"}, type_projet : {"FORFAIT"},
   prix_vente : {None, Some(0), Some(2)},
   prix_vente_base : {None, Some(0), Some(4)},
   budget_chef_projet : {None, Some(0), Some(1)},
   budget_chef_projet_base : {None, Some(0), Some(3)},
   reste_a_depenser : {Some(0)}, fiabilite : {"E"}]
  \cup
  [numero_article : {"A1"}, code_projet : {"PROJ-2024-A"}, type_projet : {"FORFAIT"},
   prix_vente : {None, Some(0), Some(2)},
   prix_vente_base : {None, Some(4)},
   budget_chef_projet : {None, Some(0), Some(1)},
   budget_chef_projet_base : {Some(3)},
   reste_a_depenser : {Some(0)}, fiabilite : {"E"}]
  \cup
  [numero_article : {"A1"}, code_projet : {"PROJ-X"}, type_projet : {"FORFAIT"},
   prix_vente : {Some(2)},
   prix_vente_base : {None, Some(4)},
   budget_chef_projet : {Some(1)},
   budget_chef_projet_base : {Some(3)},
   reste_a_depenser : {Some(0)}, fiabilite : {"E"}]

NoParams ==
  [prix_vente |-> None, prix_vente_base |-> None, budget_chef_projet |-> None,
   budget_chef_projet_base |-> None, reste_a_depenser |-> None,
   fiabilite |-> NoneStr]

\* the edits of update_control: the remaining budget, or the selling price
MetricsParams ==
  {[NoParams EXCEPT !.reste_a_depenser = Some(v)] : v \in {0, 1}}
  \cup {[NoParams EXCEPT !.prix_vente = Some(2)]}

MetricsRow(statut, projet, annule, cours, total) ==
  [numero_document |-> 1, annule |-> annule, statut_document |-> statut,
   date_enregistrement |-> <<0, 1>>, numero_article |-> "A1", code_projet |-> projet,
   quantite |-> MaxQty, quantite_livree |-> 1, quantite_en_cours |-> 1,
   prix |-> 3, cours_change |-> cours, total_lignes |-> total]

\* the commandes the metrics are computed over: an open order of the FORFAIT
\* project, a closed and a cancelled order of the METRE project
MetricsCommandes ==
  SetToBag({MetricsRow("O", "PROJ-2024-A", "N", 2, 5),
            MetricsRow("C", "PROJ-2024-B", "N", 0, 4),
            MetricsRow("O", "PROJ-2024-B", "Y", 1, 7)})

InitMetrics ==
  /\ commandes = MetricsCommandes
  /\ projects = {[code |-> p, name |-> get_project_name(p),
                  type |-> get_project_type(p), description |-> 1] :
                   p \in {"PROJ-2024-A", "PROJ-2024-B"}}
  /\ controles = {}
  /\ result = NoResult
  /\ facturations = EmptyBag
  /\ avancements = EmptyBag
  /\ syncs = NoSyncs

NextMetrics ==
  \/ \E rec \in MetricsControles : ControleCreate(rec)
  \/ \E rec \in controles : ControleDestroy(rec)
  \/ \E p \in MetricsProjets, params \in MetricsParams : UpdateControl("A1", p, params)
  \/ \E rec \in controles : GetArticleMetrics(rec)
  \/ \E rec \in controles : ReadRapportAtterrissage(rec)

SpecMetrics == InitMetrics /\ [][NextMetrics]_vars

\* a result of get_article_metrics that is a metrics dict
Reported ==
  /\ result.op \in {"get_article_metrics", "update_control"}
  /\ ~result.out.raised

\* C4: the fin_chantier reported by get_article_metrics is depenses_engagees plus
\* the record's reste_a_depenser, fin_chantier_reel is depenses_engagees_reel plus
\* the same reste_a_depenser, and a null reste_a_depenser counts as 0
C4_FinChantier ==
  /\ Reported =>
       LET m == result.out.metrics
           reste == result.controle.reste_a_depenser[1]
       IN  /\ m.fin_chantier = m.depenses_engagees + reste
           /\ m.fin_chantier_reel = m.depenses_engagees_reel + reste
  /\ \A d \in 0..MaxFin : calculate_fin_chantier(d, None) = d

C4_Witness ==
  /\ Reported
  /\ result.controle.reste_a_depenser = <<1>>
  /\ result.out.metrics.fin_chantier = 6
  /\ result.out.metrics.fin_chantier_reel = 19

\* the ratio v is n / d with the defensive zero: 0 when d is null or 0 or n is 0
GuardedQuotient(v, n, d) ==
  IF d = None \/ d = <<0>> \/ n = 0 THEN v = <<0, 1>> ELSE IsQuotient(v, n, d[1])

C9_NoRaiseOnNull ==
  result.op \in {"get_article_metrics", "update_control"} =>
    /\ ~result.out.raised
    /\ GuardedQuotient(result.out.metrics.rapport,
                       IF result.controle.budget_chef_projet = None THEN 0
                       ELSE result.controle.budget_chef_projet[1],
                       result.controle.prix_vente)

\* ------------------------------------------------- inputs of the reel metrics
ReelCommandes ==
  [numero_document : {1}, annule : {"N"}, statut_document : {"O", "C", "P"},
   date_enregistrement : {<<0, 1>>}, numero_article : {"A1"},
   code_projet : {"PROJ-2024-B"},
   quantite : {MaxQty}, quantite_livree : {1}, quantite_en_cours : {1},
   prix : {3}, cours_change : {2}, total_lignes : {5}]
  \cup
  [numero_document : {1}, annule : {"Y"}, statut_document : {"O"},
   date_enregistrement : {<<0, 1>>}, numero_article : {"A1"},
   code_projet : {"PROJ-2024-B"},
   quantite : {MaxQty}, quantite_livree : {1}, quantite_en_cours : {1},
   prix : {3}, cours_change : {2}, total_lignes : {5}]

ReelControles ==
  [numero_article : {"A1"}, code_projet : Projets, type_projet : {"FORFAIT"},
   prix_vente : {Some(2)}, prix_vente_base : {Some(4)},
   budget_chef_projet : {Some(1)}, budget_chef_projet_base : {Some(3)},
   reste_a_depenser : {Some(0)}, fiabilite : {"E"}]

NextReel ==
  \/ \E c \in ReelCommandes : CommandeSave(c)
  \/ \E c \in DOMAIN commandes, q \in 0..MaxQty : CommandeUpdateQuantite(c, q)
  \/ \E rec \in ReelControles : ControleCreate(rec)
  \/ \E rec \in controles : GetArticleMetrics(rec)

SpecReel == Init /\ [][NextReel]_vars

\* the reel metrics reported for a record over the table B
ReelMetrics(B, rec) ==
  LET out == get_article_metrics(B, rec)
  IN  IF out.raised THEN <<>>
      ELSE <<out.metrics.depenses_engagees_reel, out.metrics.depenses_facturees_reel,
             out.metrics.fin_chantier_reel, out.metrics.rentabilite_reel>>

\* this step changes the ordered quantite of the stored commande c and nothing else
QuantiteChanged(c) ==
  /\ c \in DOMAIN commandes
  /\ \E q \in 0..MaxQty :
        /\ q # c.quantite
        /\ commandes' = (commandes (-) SetToBag({c}))
                          (+) SetToBag({[c EXCEPT !.quantite = q]})
  /\ controles' = controles

\* the filters the reel totals are compared under: none, and article and project
ReelArgs == {<<NoneStr, NoneStr>>, <<"A1", "PROJ-2024-B">>}

FactureesReelUnchanged ==
  \A f \in ReelArgs :
    calculate_depenses_facturees_reel(commandes', f[1], f[2])
      = calculate_depenses_facturees_reel(commandes, f[1], f[2])

ReelUnchanged ==
  /\ FactureesReelUnchanged
  /\ \A f \in ReelArgs :
       calculate_depenses_engagees_reel(commandes', f[1], f[2])
         = calculate_depenses_engagees_reel(commandes, f[1], f[2])
  /\ \A rec \in controles : ReelMetrics(commandes', rec) = ReelMetrics(commandes, rec)

GetEvolutionData(code_projet) ==
  /\ result' = [op |-> "calculate_evolution_data", code_projet |-> code_projet,
                value |-> calculate_evolution_data(commandes, code_projet).controle]
  /\ UNCHANGED <<commandes, projects, controles, facturations, avancements, syncs>>

\* ControleDepenseViewSet.get_evolution_data: 400 without a project code, else
\* the dictionary of ControleMetricsService.get_evolution_data
EvolutionEndpoint(code_projet) ==
  /\ result' =
       IF ~Truthy(code_projet)
       THEN [op |-> "get_evolution_data", code_projet |-> code_projet,
             status |-> 400, data |-> [error |-> "code_projet is required"]]
       ELSE [op |-> "get_evolution_data", code_projet |-> code_projet,
             status |-> 200,
             data |-> [controle |->
                         calculate_evolution_data(commandes, code_projet).controle]]
  /\ UNCHANGED <<commandes, projects, controles, facturations, avancements, syncs>>

Days == {1, 2}

\* live rows on any day of any month, and cancelled rows
EvolutionCommandes ==
  [numero_document : {1}, annule : {"N"}, statut_document : {"O"},
   date_enregistrement : (0..MaxMonth) \X Days,
   numero_article : {"A1"}, code_projet : Projets,
   quantite : {MaxQty}, quantite_livree : {1}, quantite_en_cours : {1},
   prix : {3}, cours_change : {0, 2}, total_lignes : {5}]
  \cup
  [numero_document : {1}, annule : {"Y"}, statut_document : {"O"},
   date_enregistrement : (0..MaxMonth) \X {1},
   numero_article : {"A1"}, code_projet : Projets,
   quantite : {MaxQty}, quantite_livree : {1}, quantite_en_cours : {1},
   prix : {3}, cours_change : {2}, total_lignes : {5}]

NextEvolution ==
  \/ \E c \in EvolutionCommandes : CommandeSave(c)
  \/ \E p \in Projets \cup {""} : GetEvolutionData(p)
  \/ \E p \in Projets \cup {"", NoneStr} : EvolutionEndpoint(p)

SpecEvolution == Init /\ [][NextEvolution]_vars

\* the non-cancelled commandes of project p registered in month m or earlier
UpToMonth(p, m) ==
  {c \in BagToSet(commandes) :
     c.annule = "N" /\ c.code_projet = p /\ c.date_enregistrement[1] <= m}

\* C6: calculate_evolution_data returns one point per calendar month in which the
\* project has a non-cancelled commande, in strictly ascending month order, each
\* the running total of total_lignes and of prix * rate * (quantite -
\* quantite_en_cours) over the project's non-cancelled commandes of that month
\* or earlier
C6_Evolution ==
  result.op = "calculate_evolution_data" =>
    LET p == result.code_projet
        points == result.value
        months == {c.date_enregistrement[1] : c \in UpToMonth(p, MaxMonth + 1)}
    IN  /\ Len(points) = Cardinality(months)
        /\ \A i \in 1..Len(points) :
             LET m == points[i].date[1]
                 S == UpToMonth(p, m)
             IN  /\ m \in months
                 /\ points[i].date[2] = 1
                 /\ \A j \in 1..Len(points) : i < j => m < points[j].date[1]
                 /\ points[i].controle = SumRows(S, [c \in S |-> c.total_lignes])
                 /\ points[i].depenses_facturees =
                      SumRows(S, [c \in S |->
                        c.prix * Rate(c) * (c.quantite - c.quantite_en_cours)])

C6_Witness ==
  /\ result.op = "calculate_evolution_data"
  /\ Len(result.value) = 2
  /\ result.value[2].controle = 10
  /\ result.value[1].controle = 5
  /\ result.value[1].date[1] < result.value[2].date[1]
  /\ \E c \in BagToSet(commandes) :
        c.code_projet = result.code_projet /\ c.date_enregistrement[2] = 2

C11_EvolutionHasReel ==
  (result.op = "get_evolution_data" /\ result.status = 200) =>
    \A i \in 1..Len(result.data.controle) :
      LET point == result.data.controle[i]
          S == UpToMonth(result.code_projet, point.date[1])
      IN  /\ {"depenses_facturees", "depenses_facturees_reel",
               "controle", "controle_reel"} \subseteq DOMAIN point
          /\ point.depenses_facturees_reel =
                SumRows(S, [c \in S |-> c.quantite_livree * c.prix * Rate(c)])
          /\ point.controle_reel =
                SumRows(S, [c \in S |->
                  IF c.statut_document = "O" THEN c.quantite * c.prix * Rate(c)
                  ELSE IF c.statut_document = "C"
                       THEN c.quantite_livree * c.prix * Rate(c)
                  ELSE 0])

\* ------------------------------------------- FacturationAnalyticsService
\* bound on the rows of the Facturation and of the Avancement table
MaxFactures == 2

\* date.replace(day=1)
replace_day1(date) == <<date[1], 1>>

\* date.isoformat: year-month and day
date_isoformat(date) == <<date[1], date[2]>>

\* sorted(monthly_groups.keys())
RECURSIVE sorted_months(_)
sorted_months(keys) ==
  IF keys = {} THEN <<>>
  ELSE LET k == CHOOSE x \in keys : \A y \in keys : DateLeq(x, y)
       IN  <<k>> \o sorted_months(keys \ {k})

\* the loop over sorted_months with the month's own total only
RECURSIVE cumulative_totals_month_only(_, _, _, _, _)
cumulative_totals_month_only(records, dates, amounts, months, cumulative_total) ==
  IF months = <<>> THEN <<>>
  ELSE LET month == Head(months)
           group == {r \in DOMAIN records : replace_day1(dates[r]) = month}
           month_total == SumF([r \in group |-> records[r] * amounts[r]])
       IN  <<[month |-> month, total |-> month_total]>>
           \o cumulative_totals_month_only(records, dates, amounts, Tail(months), 0)

\* the loop over sorted_months: cumulative_total += month_total
RECURSIVE cumulative_totals(_, _, _, _, _)
cumulative_totals(records, dates, amounts, months, cumulative_total) ==
  IF months = <<>> THEN <<>>
  ELSE LET month == Head(months)
           group == {r \in DOMAIN records : replace_day1(dates[r]) = month}
           month_total == SumF([r \in group |-> records[r] * amounts[r]])
           total == cumulative_total + month_total
       IN  <<[month |-> month, total |-> total]>>
           \o cumulative_totals(records, dates, amounts, Tail(months), total)

_get_facturation_evolution(F, project_code) ==
  LET records == Filter(F, {r \in DOMAIN F : r.project_code = project_code})
      dates == [r \in DOMAIN records |-> r.registration_date]
      amounts == [r \in DOMAIN records |-> r.total_after_discount]
      monthly_groups == {replace_day1(dates[r]) : r \in DOMAIN records}
      totals == cumulative_totals(records, dates, amounts,
                                  sorted_months(monthly_groups), 0)
  IN  [i \in 1..Len(totals) |->
         [date |-> date_isoformat(totals[i].month),
          total_after_discount |-> float(totals[i].total)]]

_get_avancement_evolution(A, project_code) ==
  LET records == Filter(A, {r \in DOMAIN A : r.project_code = project_code})
      dates == [r \in DOMAIN records |-> r.accounting_date]
      amounts == [r \in DOMAIN records |-> r.payment_ht]
      monthly_groups == {replace_day1(dates[r]) : r \in DOMAIN records}
      totals == cumulative_totals(records, dates, amounts,
                                  sorted_months(monthly_groups), 0)
  IN  [i \in 1..Len(totals) |->
         [date |-> date_isoformat(totals[i].month),
          total_payment |-> float(totals[i].total)]]

\* FacturationAnalyticsService.get_evolution_data
facturation_get_evolution_data(F, A, project_code) ==
  IF ~Truthy(project_code) THEN [facturation |-> <<>>, avancement |-> <<>>]
  ELSE [facturation |-> _get_facturation_evolution(F, project_code),
        avancement |-> _get_avancement_evolution(A, project_code)]

FacturationGetEvolutionData(project_code) ==
  /\ result' = [op |-> "facturation_get_evolution_data",
                project_code |-> project_code,
                value |-> facturation_get_evolution_data(facturations, avancements,
                                                         project_code)]
  /\ UNCHANGED <<commandes, projects, controles, facturations, avancements, syncs>>

\* the bags of at most n rows drawn from the set S
RECURSIVE BagsOf(_, _)
BagsOf(S, n) ==
  IF n = 0 THEN {EmptyBag}
  ELSE LET smaller == BagsOf(S, n - 1)
       IN  smaller \cup {b (+) SetToBag({r}) : b \in smaller, r \in S}

\* invoice lines of two projects, in any month, not on its first day
FacturationRows ==
  [project_code : Projets, registration_date : (0..MaxMonth) \X {2},
   total_after_discount : {3}]

\* payments of one project
AvancementRows ==
  [project_code : {"PROJ-2024-A"}, accounting_date : (0..MaxMonth) \X {2},
   payment_ht : {2}]

InitFacturation ==
  /\ commandes = EmptyBag
  /\ projects = {}
  /\ controles = {}
  /\ result = NoResult
  /\ facturations \in BagsOf(FacturationRows, MaxFactures)
  /\ avancements \in BagsOf(AvancementRows, MaxFactures)
  /\ syncs = NoSyncs

NextFacturation ==
  \E p \in Projets \cup {"", NoneStr} : FacturationGetEvolutionData(p)

SpecFacturation == InitFacturation /\ [][NextFacturation]_vars

\* sum of term over the rows S of table B, each counted as often as stored
RECURSIVE SumOver(_, _, _)
SumOver(B, S, term) ==
  IF S = {} THEN 0
  ELSE LET r == CHOOSE x \in S : TRUE
       IN  CopiesIn(r, B) * term[r] + SumOver(B, S \ {r}, term)

\* points is the monthly running total of amounts over the rows of table B whose
\* project is p: one point per month with a row, first of the month, ascending
IsRunningTotal(points, values, B, p, dates, amounts) ==
  LET rows == {r \in BagToSet(B) : r.project_code = p}
      months == {dates[r][1] : r \in rows}
  IN  /\ Len(points) = Cardinality(months)
      /\ \A i \in 1..Len(points) :
           LET m == points[i].date[1]
               S == {r \in rows : dates[r][1] <= m}
           IN  /\ m \in months
               /\ points[i].date[2] = 1
               /\ \A j \in 1..Len(points) : i < j => m < points[j].date[1]
               /\ values[i] = SumOver(B, S, [r \in S |-> amounts[r]])

\* C12: FacturationAnalyticsService.get_evolution_data returns, for facturation
\* and for avancement, one point per calendar month with a record of the project,
\* dated the first of the month, strictly ascending, whose value is the sum of
\* total_after_discount (payment_ht) over the project's records of that month or
\* earlier; with an empty project code both lists are empty
C12_FacturationEvolution ==
  result.op = "facturation_get_evolution_data" =>
    LET v == result.value
        F == BagToSet(facturations)
        A == BagToSet(avancements)
    IN  IF result.project_code \in {"", NoneStr}
        THEN v.facturation = <<>> /\ v.avancement = <<>>
        ELSE /\ IsRunningTotal(v.facturation,
                  [i \in 1..Len(v.facturation) |->
                     v.facturation[i].total_after_discount],
                  facturations, result.project_code,
                  [r \in F |-> r.registration_date],
                  [r \in F |-> r.total_after_discount])
             /\ IsRunningTotal(v.avancement,
                  [i \in 1..Len(v.avancement) |-> v.avancement[i].total_payment],
                  avancements, result.project_code,
                  [r \in A |-> r.accounting_date],
                  [r \in A |-> r.payment_ht])

C12_Witness ==
  /\ result.op = "facturation_get_evolution_data"
  /\ Len(result.value.facturation) = 2
  /\ result.value.facturation[1].total_after_discount = 3
  /\ result.value.facturation[2].total_after_discount = 6
  /\ Len(result.value.avancement) = 2
  /\ result.value.avancement[2].total_payment = 4
  /\ \E r \in BagToSet(facturations) : r.registration_date[2] = 2

\* ------------------------------------------------- saves and their projects
\* ProjectViewSet.destroy
ProjectDestroy(q) ==
  /\ q \in projects
  /\ projects' = projects \ {q}
  /\ result' = [op |-> "project_destroy", code |-> q.code]
  /\ UNCHANGED <<commandes, controles, facturations, avancements, syncs>>

\* delivered and in-progress quantities, within and beyond the ordered quantity
SaveQuantities == {<<0, 0>>, <<2, 0>>, <<0, 2>>}

\* commandes without project, of a listed and of an unlisted project
SaveCommandes ==
  {[numero_document |-> k[1], annule |-> "N", statut_document |-> "O",
    date_enregistrement |-> <<0, 1>>, numero_article |-> "A1",
    code_projet |-> k[2], quantite |-> q, quantite_livree |-> lq[1],
    quantite_en_cours |-> lq[2], prix |-> 3, cours_change |-> 1,
    total_lignes |-> 5] :
     k \in {<<1, "">>, <<1, "PROJ-2024-B">>, <<1, "PROJ-X">>, <<2, "PROJ-X">>},
     q \in {1, MaxQty}, lq \in SaveQuantities}

NextSave ==
  \/ \E c \in SaveCommandes : CommandeSave(c)
  \/ \E c \in DOMAIN commandes, q \in {1, MaxQty} : CommandeUpdateQuantite(c, q)
  \/ \E q \in projects : ProjectDestroy(q)

SpecSave == Init /\ [][NextSave]_vars

\* the business rules of a commande
RulesHold(c) == c.quantite_en_cours <= c.quantite /\ c.quantite_livree <= c.quantite

\* a save of c that breaks a rule raises and stores nothing; any other save stores c
SaveEnforcesRules ==
  /\ \A c \in SaveCommandes :
       CommandeSave(c) =>
         IF RulesHold(c) THEN /\ ~result'.raised
                              /\ commandes' = commandes (+) SetToBag({c})
         ELSE result'.raised /\ commandes' = commandes
  /\ \A c \in DOMAIN commandes, q \in {1, MaxQty} :
       CommandeUpdateQuantite(c, q) =>
         IF RulesHold([c EXCEPT !.quantite = q])
         THEN ~result'.raised /\ BagIn([c EXCEPT !.quantite = q], commandes')
         ELSE result'.raised /\ commandes' = commandes

\* C13: a save with quantite_en_cours > quantite or quantite_livree > quantite raises
\* and stores nothing, so every stored commande satisfies
\* quantite_en_cours <= quantite and quantite_livree <= quantite
C13_SaveEnforcesRules ==
  /\ [](\A c \in DOMAIN commandes : RulesHold(c))
  /\ [][SaveEnforcesRules]_vars

C13_Witness ==
  /\ result.op = "update" /\ result.raised
  /\ result.new.quantite_livree > result.new.quantite
  /\ BagIn(result.old, commandes)
  /\ BagCardinality(commandes) = 2

\* the Project that the post_save receiver creates for a commande
DefaultProject(c) ==
  [code |-> c.code_projet,
   name |-> IF c.code_projet = "PROJ-2024-A" THEN "PROJA"
            ELSE IF c.code_projet = "PROJ-2024-B" THEN "PROJB" ELSE c.code_projet,
   type |-> IF c.code_projet = "PROJ-2024-B" THEN "METRE" ELSE "FORFAIT",
   description |-> c.numero_document]

\* the projects after a successful save of commande c
ProjectEnsured(c) ==
  IF c.code_projet = "" THEN projects' = projects
  ELSE /\ Cardinality({q \in projects' : q.code = c.code_projet}) = 1
       /\ IF \E q \in projects : q.code = c.code_projet
          THEN projects' = projects
          ELSE projects' = projects \cup {DefaultProject(c)}

ProjectOnSave ==
  /\ \A c \in SaveCommandes :
       (CommandeSave(c) /\ ~result'.raised) => ProjectEnsured(c)
  /\ \A c \in DOMAIN commandes, q \in {1, MaxQty} :
       (CommandeUpdateQuantite(c, q) /\ ~result'.raised)
         => ProjectEnsured([c EXCEPT !.quantite = q])
  /\ (result'.op # "project_destroy" => projects \subseteq projects')

\* C19: a successful save of a commande with a non-empty code_projet leaves
\* exactly one Project of that code: a new one when there was none, the existing
\* one with its name, type and description unchanged otherwise; no two Projects
\* ever share a code, and only a deletion removes a Project
C19_ProjectPerCode ==
  /\ [](\A q1, q2 \in projects : q1.code = q2.code => q1 = q2)
  /\ [][ProjectOnSave]_vars

C19_Witness ==
  /\ result.op = "save" /\ ~result.raised
  /\ \E c, e \in DOMAIN commandes :
        /\ c.code_projet = "PROJ-X" /\ e.code_projet = "PROJ-X"
        /\ c.numero_document = 1 /\ e.numero_document = 2
  /\ projects = {[code |-> "PROJ-X", name |-> "PROJ-X", type |-> "FORFAIT",
                  description |-> 1]}

\* ------------------------------------------------------------ ExcelService
\* A sheet is its data rows in order, kept as runs <<row, count>> of equal
\* consecutive rows; a row is the record of its cells, or EmptyRow when every
\* cell is blank.
CHUNK_SIZE == 5000

\* rows of a sheet beyond CHUNK_SIZE
MaxExtraRows == 1

EmptyRow == [blank |-> TRUE]

RECURSIVE SheetLen(_)
SheetLen(sheet) ==
  IF sheet = <<>> THEN 0 ELSE Head(sheet).count + SheetLen(Tail(sheet))

\* the first n rows of a sheet
RECURSIVE TakeRows(_, _)
TakeRows(sheet, n) ==
  IF sheet = <<>> \/ n <= 0 THEN <<>>
  ELSE IF Head(sheet).count <= n
       THEN <<Head(sheet)>> \o TakeRows(Tail(sheet), n - Head(sheet).count)
       ELSE <<[Head(sheet) EXCEPT !.count = n]>>

\* a sheet without its first n rows
RECURSIVE DropRows(_, _)
DropRows(sheet, n) ==
  IF sheet = <<>> \/ n <= 0 THEN sheet
  ELSE IF Head(sheet).count <= n
       THEN DropRows(Tail(sheet), n - Head(sheet).count)
       ELSE <<[Head(sheet) EXCEPT !.count = @ - n]>> \o Tail(sheet)

\* python range(start, stop, step) with a positive step
range(start, stop, step) ==
  [i \in 1..((stop - start + step - 1) \div step) |-> start + (i - 1) * step]

\* pd.read_excel(skiprows=, nrows=): the line after the skipped ones is the
\* header, the nrows lines after it are the data
pd_read_excel(sheet, skiprows, nrows) == TakeRows(DropRows(sheet, skiprows), nrows)

\* not df_chunk.empty
NotEmptyChunk(df_chunk) == df_chunk # <<>>

\* the chunks that read_excel_in_chunks yields
read_excel_in_chunks(sheet) ==
  LET starts == range(0, CHUNK_SIZE, CHUNK_SIZE)
      chunks == [i \in 1..Len(starts) |-> pd_read_excel(sheet, starts[i], CHUNK_SIZE)]
  IN  SelectSeq(chunks, NotEmptyChunk)

\* pd.concat(chunks, ignore_index=True)
RECURSIVE concat(_)
concat(chunks) == IF chunks = <<>> THEN <<>> ELSE Head(chunks) \o concat(Tail(chunks))

NotEmptyRun(run) == run.row # EmptyRow

\* df.dropna(how="all")
dropna_all(df) == SelectSeq(df, NotEmptyRun)

\* read_excel: pd.concat raises on an empty list of chunks
read_excel(sheet) ==
  LET chunks == read_excel_in_chunks(sheet)
  IN  IF chunks = <<>> THEN [raised |-> TRUE, error |-> "ExcelProcessingError"]
      ELSE [raised |-> FALSE, df |-> dropna_all(concat(chunks))]

\* process_excel_file on a sheet that has every column: read_excel, then
\* clean_data and validate_data, which keep the rows
process_excel_file(sheet) == read_excel(sheet)

\* -------------------------------------------------------- CommandeService
\* _safe_numeric_convert of a numeric cell: str(value), then float(Decimal(...))
\* of its digits, which is the number the cell holds
_safe_numeric_convert(value) == value

\* the command_data built from the cells of a row
command_data(row) ==
  [row EXCEPT !.quantite = _safe_numeric_convert(row.quantite),
              !.quantite_livree = _safe_numeric_convert(row.quantite_livree),
              !.quantite_en_cours = _safe_numeric_convert(row.quantite_en_cours),
              !.prix = _safe_numeric_convert(row.prix),
              !.cours_change = _safe_numeric_convert(row.cours_change),
              !.total_lignes = _safe_numeric_convert(row.total_lignes)]

\* all([numero_document, code_fournisseur, numero_article, code_projet])
required_values(data) ==
  data.numero_document # 0 /\ data.numero_article # "" /\ data.code_projet # ""

\* the loop of import_from_excel over the rows of df: objects.create per row,
\* a row that fails is recorded in errors and the loop goes on
RECURSIVE import_rows(_, _)
import_rows(df, acc) ==
  IF df = <<>> THEN acc
  ELSE LET run == Head(df)
           data == command_data(run.row)
       IN  IF required_values(data) /\ ~CommandeSaveRaises(data)
           THEN import_rows(Tail(df),
                  [acc EXCEPT
                     !.commandes = @ (+) [c \in {data} |-> run.count],
                     !.projects = create_project_from_commande(@, data),
                     !.commands = Append(@, [row |-> data, count |-> run.count])])
           ELSE import_rows(Tail(df), [acc EXCEPT !.errors = @ + run.count])

\* import_from_excel: rows created before a failing row stay stored
import_from_excel(B, P, file) ==
  LET read == process_excel_file(file)
  IN  IF read.raised
      THEN [raised |-> TRUE, commandes |-> B, projects |-> P, commands |-> <<>>]
      ELSE LET out == import_rows(read.df, [commandes |-> B, projects |-> P,
                                            commands |-> <<>>, errors |-> 0])
           IN  [raised |-> out.errors > 0, commandes |-> out.commandes,
                projects |-> out.projects, commands |-> out.commands]

\* CommandeViewSet.import_excel -> CommandeService.import_from_excel
ImportExcel(file) ==
  /\ BagCardinality(commandes) <= MaxCommandes
  /\ LET out == import_from_excel(commandes, projects, file)
     IN  /\ commandes' = out.commandes
         /\ projects' = out.projects
         /\ result' = [op |-> "import_from_excel", file |-> file,
                       before |-> commandes, raised |-> out.raised,
                       commands |-> IF out.raised THEN <<>> ELSE out.commands]
  /\ UNCHANGED <<controles, facturations, avancements, syncs>>

ReadExcelInChunks(sheet) ==
  /\ result' = [op |-> "read_excel_in_chunks", sheet |-> sheet,
                chunks |-> read_excel_in_chunks(sheet)]
  /\ UNCHANGED <<commandes, projects, controles, facturations, avancements, syncs>>

ReadExcel(sheet) ==
  /\ result' = [op |-> "read_excel", sheet |-> sheet, out |-> read_excel(sheet)]
  /\ UNCHANGED <<commandes, projects, controles, facturations, avancements, syncs>>

\* ------------------------------------------------------ inputs of the import
ImportRow(numero_document, code_projet, quantite) ==
  [numero_document |-> numero_document, annule |-> "N", statut_document |-> "O",
   date_enregistrement |-> <<0, 1>>, numero_article |-> "A1",
   code_projet |-> code_projet, quantite |-> quantite, quantite_livree |-> 1,
   quantite_en_cours |-> 1, prix |-> 3, cours_change |-> 1, total_lignes |-> 5]

\* rows that can be created
ValidRows == {ImportRow(1, "PROJ-2024-A", MaxQty), ImportRow(2, "PROJ-X", MaxQty)}

\* and a row that breaks a business rule, and a blank row
SheetRows == ValidRows \cup {ImportRow(1, "PROJ-2024-A", 0), EmptyRow}

\* a valid row followed by a different row
RowPairs == {p \in ValidRows \X SheetRows : p[1] # p[2]}

\* short sheets of one or two runs, and sheets about CHUNK_SIZE rows long
ImportFiles ==
  {<<>>}
  \cup {<<[row |-> r, count |-> n]>> : r \in SheetRows, n \in 1..2}
  \cup {<<[row |-> p[1], count |-> 1], [row |-> p[2], count |-> n]>> :
          p \in RowPairs, n \in 1..2}
  \cup {<<[row |-> r, count |-> CHUNK_SIZE - 1 + n]>> :
          r \in ValidRows, n \in 0..(MaxExtraRows + 1)}
  \cup {<<[row |-> p[1], count |-> CHUNK_SIZE - 1], [row |-> p[2], count |-> n]>> :
          p \in RowPairs, n \in 1..(MaxExtraRows + 1)}

NextImport ==
  \/ \E c \in ValidRows : CommandeSave(c)
  \/ \E file \in ImportFiles : ImportExcel(file)
  \/ \E sheet \in ImportFiles : ReadExcelInChunks(sheet)
  \/ \E sheet \in ImportFiles : ReadExcel(sheet)

SpecImport == Init /\ [][NextImport]_vars

\* the runs of a sheet with equal neighbours merged
RECURSIVE Normalize(_)
Normalize(sheet) ==
  IF Len(sheet) < 2 THEN sheet
  ELSE LET rest == Normalize(Tail(sheet))
       IN  IF Head(sheet).row = Head(rest).row
           THEN <<[Head(rest) EXCEPT !.count = @ + Head(sheet).count]>> \o Tail(rest)
           ELSE <<Head(sheet)>> \o rest

\* the rows of a sheet as a bag
RECURSIVE SheetBag(_)
SheetBag(sheet) ==
  IF sheet = <<>> THEN EmptyBag
  ELSE [r \in {Head(sheet).row} |-> Head(sheet).count] (+) SheetBag(Tail(sheet))

\* C14: for a file of one or more rows that are all valid import_from_excel creates exactly one
\* new Commande per row, also for rows identical to stored commandes or to
\* other rows of the file, and returns the created commandes, as many as rows
C14_ImportCreatesEveryRow ==
  (result.op = "import_from_excel" /\ result.file # <<>>
     /\ \A i \in 1..Len(result.file) : result.file[i].row \in ValidRows) =>
    /\ ~result.raised
    /\ Normalize(result.commands) = result.file
    /\ SheetLen(result.commands) = SheetLen(result.file)
    /\ commandes = result.before (+) SheetBag(result.file)

\* C18: read_excel_in_chunks yields every row of the sheet exactly once, in sheet
\* order, in chunks of at most CHUNK_SIZE rows; read_excel returns all non-empty
\* rows of the sheet, also of a sheet of more than CHUNK_SIZE rows
C18_ReadsEveryRow ==
  /\ result.op = "read_excel_in_chunks" =>
       /\ Normalize(concat(result.chunks)) = result.sheet
       /\ \A i \in 1..Len(result.chunks) : SheetLen(result.chunks[i]) <= CHUNK_SIZE
  /\ (result.op = "read_excel" /\ SheetLen(result.sheet) > 0) =>
       /\ ~result.out.raised
       /\ Normalize(result.out.df) = Normalize(dropna_all(result.sheet))

\* the landing ratio the claim describes: budget_chef_projet_base /
\* prix_vente_base of a METRE record with both present and non-zero, else 0
LandingRatio(v, metre, c) ==
  IF metre /\ TruthyDecimal(c.prix_vente_base)
           /\ TruthyDecimal(c.budget_chef_projet_base)
  THEN IsQuotient(v, c.budget_chef_projet_base[1], c.prix_vente_base[1])
  ELSE v = <<0, 1>>

\* C16: rapport_atterrissage, as the property of ControleDepense and as reported
\* by get_article_metrics, is budget_chef_projet_base / prix_vente_base for a
\* METRE project with both present and non-zero, and 0 for every non-METRE
\* project and whenever the budget or the price is missing or zero
C16_RapportAtterrissageMetreOnly ==
  /\ result.op = "rapport_atterrissage" =>
       LandingRatio(result.value, result.controle.type_projet = "METRE",
                    result.controle)
  /\ Reported =>
       LandingRatio(result.out.metrics.rapport_atterrissage,
                    result.out.metrics.type_projet = "METRE", result.controle)

\* --------------------------------------- sync_controle_depense_records
\* the strings of the model in the order the database sorts them
Collation == <<"", "A1", "A2", "PROJ-2024-A", "PROJ-2024-B", "PROJ-X", "UNKNOWN">>

Rank(str) == CHOOSE i \in 1..Len(Collation) : Collation[i] = str

ComboLeq(x, y) ==
  \/ Rank(x.numero_article) < Rank(y.numero_article)
  \/ /\ x.numero_article = y.numero_article
     /\ Rank(x.code_projet) <= Rank(y.code_projet)

\* .order_by("numero_article", "code_projet") of a set of combinations
RECURSIVE order_by_combo(_)
order_by_combo(combos) ==
  IF combos = {} THEN <<>>
  ELSE LET x == CHOOSE c \in combos : \A y \in combos : ComboLeq(c, y)
       IN  <<x>> \o order_by_combo(combos \ {x})

\* commande_query.values("numero_article", "code_projet").distinct().order_by(...)
unique_combinations(B, numero_article, code_projet) ==
  order_by_combo({[numero_article |-> c.numero_article, code_projet |-> c.code_projet] :
                    c \in DOMAIN BaseQuery(B, numero_article, code_projet)})

\* the row that get_or_create inserts for a combination: the defaults, and the
\* column default of reste_a_depenser
sync_defaults(combo) ==
  [numero_article |-> combo.numero_article, code_projet |-> combo.code_projet,
   type_projet |-> get_project_type(combo.code_projet),
   prix_vente |-> Some(0), prix_vente_base |-> Some(0),
   budget_chef_projet |-> Some(0), budget_chef_projet_base |-> Some(0),
   reste_a_depenser |-> Some(0), fiabilite |-> "E"]

\* the rows of table C with the key of a combination
Lookup(C, combo) ==
  {r \in C : r.numero_article = combo.numero_article
               /\ r.code_projet = combo.code_projet}

\* an INSERT without the unique constraint
InsertBlind(C, row) == [ok |-> TRUE, controles |-> C \cup {row}]

\* an INSERT under unique_together (numero_article, code_projet): IntegrityError
\* when a row of the key is there
InsertUnique(C, row) ==
  IF Lookup(C, row) # {} THEN [ok |-> FALSE, controles |-> C]
  ELSE [ok |-> TRUE, controles |-> C \cup {row}]

\* controle.type_projet = project_type; controle.save(): every column of the
\* instance is written to its row
save_type(C, controle, project_type) ==
  (C \ Lookup(C, controle)) \cup {[controle EXCEPT !.type_projet = project_type]}

\* the body of the loop for one combination, run without interruption
sync_combination(C, combo) ==
  IF Lookup(C, combo) = {} THEN InsertUnique(C, sync_defaults(combo)).controles
  ELSE LET controle == CHOOSE r \in Lookup(C, combo) : TRUE
           project_type == get_project_type(combo.code_projet)
       IN  IF controle.type_projet # project_type
           THEN save_type(C, controle, project_type)
           ELSE C

RECURSIVE sync_combinations(_, _)
sync_combinations(C, combos) ==
  IF combos = <<>> THEN C
  ELSE sync_combinations(sync_combination(C, Head(combos)), Tail(combos))

\* sync_controle_depense_records run on its own
sync_controle_depense_records(B, C, numero_article, code_projet) ==
  sync_combinations(C, unique_combinations(B, numero_article, code_projet))

\* ------------------------------------------------------ interleaved syncs
\* Each running sync is a process of syncs: its filters, the combinations it has
\* still to treat (the query is evaluated once, at the start), its position in
\* the loop body and the instance it read.  The rows of this model carry their
\* primary key, so that two rows of one (numero_article, code_projet) differ.
MaxSyncs == 2

SyncProcs == 1..MaxSyncs

\* a row with the primary key the table's sequence gives it
WithId(row, id) ==
  [f \in DOMAIN row \cup {"id"} |-> IF f = "id" THEN id ELSE row[f]]

RECURSIVE MaxOf(_)
MaxOf(S) ==
  IF S = {} THEN 0
  ELSE LET x == CHOOSE y \in S : TRUE
           m == MaxOf(S \ {x})
       IN  IF x > m THEN x ELSE m

NextId(C) == 1 + MaxOf({r.id : r \in C})

\* the process p after the body of the loop for its first combination
Advance(p) == [syncs EXCEPT ![p].pc = "get", ![p].combos = Tail(@),
                            ![p].controle = None]

\* what follows a get that found the rows `found` of the combination: more than
\* one row raises MultipleObjectsReturned, which the loop logs and passes over
AfterGet(p, found) ==
  IF Cardinality(found) # 1 THEN Advance(p)
  ELSE LET controle == CHOOSE r \in found : TRUE
       IN  IF controle.type_projet # get_project_type(controle.code_projet)
           THEN [syncs EXCEPT ![p].pc = "save", ![p].controle = Some(controle)]
           ELSE Advance(p)

\* the start of sync_controle_depense_records: the filtered query is evaluated
SyncStart(p, numero_article, code_projet) ==
  /\ p \notin DOMAIN syncs
  /\ syncs' = [q \in DOMAIN syncs \cup {p} |->
                 IF q = p
                 THEN [pc |-> "get", numero_article |-> numero_article,
                       code_projet |-> code_projet,
                       combos |-> unique_combinations(commandes, numero_article,
                                                      code_projet),
                       controle |-> None]
                 ELSE syncs[q]]
  /\ result' = [op |-> "sync_start"]
  /\ UNCHANGED <<commandes, projects, controles, facturations, avancements>>

\* get_or_create, the SELECT
SyncGet(p) ==
  /\ p \in DOMAIN syncs
  /\ syncs[p].pc = "get" /\ syncs[p].combos # <<>>
  /\ LET found == Lookup(controles, Head(syncs[p].combos))
     IN  syncs' = IF found = {} THEN [syncs EXCEPT ![p].pc = "create"]
                  ELSE AfterGet(p, found)
  /\ result' = [op |-> "sync_step"]
  /\ UNCHANGED <<commandes, projects, controles, facturations, avancements>>

\* get_or_create, the INSERT; on IntegrityError the SELECT again
SyncCreate(p) ==
  /\ p \in DOMAIN syncs
  /\ syncs[p].pc = "create"
  /\ LET combo == Head(syncs[p].combos)
         ins == InsertUnique(controles, WithId(sync_defaults(combo), NextId(controles)))
     IN  /\ controles' = ins.controles
         /\ syncs' = IF ins.ok THEN Advance(p)
                     ELSE AfterGet(p, Lookup(controles, combo))
  /\ result' = [op |-> "sync_step"]
  /\ UNCHANGED <<commandes, projects, facturations, avancements>>

\* controle.type_projet = project_type; controle.save()
SyncSave(p) ==
  /\ p \in DOMAIN syncs
  /\ syncs[p].pc = "save"
  /\ LET controle == syncs[p].controle[1]
     IN  controles' = save_type(controles, controle,
                                get_project_type(controle.code_projet))
  /\ syncs' = Advance(p)
  /\ result' = [op |-> "sync_step"]
  /\ UNCHANGED <<commandes, projects, facturations, avancements>>

\* the end of the loop
SyncDone(p) ==
  /\ p \in DOMAIN syncs
  /\ syncs[p].pc = "get" /\ syncs[p].combos = <<>>
  /\ syncs' = [q \in DOMAIN syncs \ {p} |-> syncs[q]]
  /\ result' = [op |-> "sync_done", numero_article |-> syncs[p].numero_article,
                code_projet |-> syncs[p].code_projet]
  /\ UNCHANGED <<commandes, projects, controles, facturations, avancements>>

\* commandes of a METRE and of an unlisted project, and a cancelled one
SyncCommandes ==
  {[numero_document |-> 1, annule |-> k[1], statut_document |-> "O",
    date_enregistrement |-> <<0, 1>>, numero_article |-> k[2], code_projet |-> k[3],
    quantite |-> MaxQty, quantite_livree |-> 1, quantite_en_cours |-> 1,
    prix |-> 3, cours_change |-> 1, total_lignes |-> 5] :
     k \in {<<"N", "A1", "PROJ-2024-B">>, <<"N", "A1", "PROJ-X">>,
            <<"Y", "A2", "PROJ-2024-B">>}}

\* a record entered by hand, stored with the default type FORFAIT
SyncControles ==
  {[numero_article |-> "A1", code_projet |-> "PROJ-2024-B", type_projet |-> "FORFAIT",
    prix_vente |-> Some(2), prix_vente_base |-> Some(4),
    budget_chef_projet |-> Some(1), budget_chef_projet_base |-> Some(3),
    reste_a_depenser |-> Some(1), fiabilite |-> "C"]}

SyncFilters == {<<NoneStr, NoneStr>>, <<"A1", "PROJ-X">>}

\* commandes are saved while no sync runs
SyncCommandeSave(c) == syncs = NoSyncs /\ CommandeSave(c)

\* a selling price entered through update_control
SyncParams == {[NoParams EXCEPT !.prix_vente = Some(3)]}

\* update_control_data on a stored record, in its own transaction, at any moment
\* of the running syncs; the row keeps its primary key
SyncUpdateControl(rec, params) ==
  /\ rec \in controles
  /\ LET upd == update_control_data(controles, rec.numero_article, rec.code_projet,
                                    get_project_type(rec.code_projet), params)
     IN  /\ controles' = (controles \ {rec}) \cup {WithId(upd.control, rec.id)}
         /\ result' = [op |-> "update_control", controle |-> upd.control]
  /\ UNCHANGED <<commandes, projects, facturations, avancements, syncs>>

NextSync ==
  \/ \E c \in SyncCommandes : SyncCommandeSave(c)
  \/ \E rec \in SyncControles : ControleCreate(WithId(rec, NextId(controles)))
  \/ \E p \in SyncProcs, f \in SyncFilters : SyncStart(p, f[1], f[2])
  \/ \E p \in SyncProcs : SyncGet(p)
  \/ \E p \in SyncProcs : SyncCreate(p)
  \/ \E p \in SyncProcs : SyncSave(p)
  \/ \E p \in SyncProcs : SyncDone(p)
  \/ \E rec \in controles, params \in SyncParams : SyncUpdateControl(rec, params)

SpecSync == Init /\ [][NextSync]_vars

\* the rows of the key of pair
RowsOf(pair) ==
  {r \in controles : r.numero_article = pair[1] /\ r.code_projet = pair[2]}

\* the pairs of the non-cancelled commandes that match the filters
SyncPairs(a, p) ==
  {<<c.numero_article, c.code_projet>> :
     c \in {d \in BagToSet(commandes) :
              /\ d.annule = "N"
              /\ (Truthy(a) => d.numero_article = a)
              /\ (Truthy(p) => d.code_projet = p)}}

\* a row that this step inserts while a sync is at work has the defaults
SyncCreatesDefaults ==
  \A r \in controles' :
    (result'.op = "sync_step" /\ r.id \notin {o.id : o \in controles}) =>
      /\ r.prix_vente = <<0>> /\ r.prix_vente_base = <<0>>
      /\ r.budget_chef_projet = <<0>> /\ r.budget_chef_projet_base = <<0>>
      /\ r.fiabilite = "E"

\* the figures entered by hand
Figures(r) ==
  <<r.prix_vente, r.prix_vente_base, r.budget_chef_projet,
    r.budget_chef_projet_base, r.reste_a_depenser, r.fiabilite>>

\* a step of a sync leaves the figures of every stored record as they are
SyncKeepsFigures ==
  result'.op = "sync_step" =>
    \A r \in controles :
      \E n \in controles' : n.id = r.id /\ Figures(n) = Figures(r)

\* C22: sync_controle_depense_records never changes the figures entered by hand:
\* on a record that exists it leaves prix_vente, prix_vente_base,
\* budget_chef_projet, budget_chef_projet_base, reste_a_depenser and fiabilite
\* unchanged and writes at most type_projet
C22_SyncKeepsFigures == [][SyncKeepsFigures]_vars

\* C20: after a sync every pair (numero_article, code_projet) of the non-cancelled
\* commandes matching its filters has exactly one ControleDepense record; a
\* record the sync creates has the four amounts 0 and fiabilite 'E'; no two
\* records ever share a pair, also when syncs repeat or interleave
C20_SyncOneRecordPerPair ==
  /\ [](\A r1, r2 \in controles :
          (r1.numero_article = r2.numero_article /\ r1.code_projet = r2.code_projet)
            => r1 = r2)
  /\ [](result.op = "sync_done" =>
          \A pair \in SyncPairs(result.numero_article, result.code_projet) :
            Cardinality(RowsOf(pair)) = 1)
  /\ [][SyncCreatesDefaults]_vars

C20_Witness ==
  /\ result.op = "sync_done"
  /\ syncs # NoSyncs
  /\ Cardinality(controles) = 2
  /\ \E r \in controles : r.code_projet = "PROJ-X" /\ r.fiabilite = "E"
  /\ \E r \in controles : r.code_projet = "PROJ-2024-B" /\ r.type_projet = "METRE"
                            /\ r.fiabilite = "C"

\* ------------------------------------- ControleMetricsService.get_all_metrics
\* str.lower() and the substrings of the lower-cased article numbers in use
lower(str) ==
  CASE str = "A1" -> "a1"
    [] str = "A2" -> "a2"
    [] str = "A" -> "a"
    [] OTHER -> str

substrings(str) ==
  CASE str = "a1" -> {"", "a", "1", "a1"}
    [] str = "a2" -> {"", "a", "2", "a2"}
    [] OTHER -> {"", str}

\* the lookup numero_article__icontains
icontains(value, needle) == lower(needle) \in substrings(lower(value))

\* the codes of PROJECT_NAME_MAP whose type is type_projet
matching_codes(type_projet) ==
  {code \in DOMAIN PROJECT_NAME_MAP : PROJECT_NAME_MAP[code].type = type_projet}

\* the rows of the queryset of get_all_metrics
all_metrics_queryset(C, numero_article, code_projet, type_projet) ==
  {r \in C :
     /\ (Truthy(numero_article) => icontains(r.numero_article, numero_article))
     /\ (Truthy(code_projet) => r.code_projet = code_projet)
     /\ (Truthy(type_projet) => r.code_projet \in matching_codes(type_projet))}

\* the outcomes of get_all_metrics: the table after it, and the metrics or the
\* exception.  The queryset has no ordering, so when get_article_metrics raises
\* on a row, any of the other rows may have been treated (and saved by
\* validate_record) before it.
get_all_metrics(B, C, numero_article, code_projet, type_projet) ==
  LET synced == sync_controle_depense_records(B, C, numero_article, code_projet)
      queryset == all_metrics_queryset(synced, numero_article, code_projet, type_projet)
      raising == {r \in queryset : get_article_metrics(B, r).raised}
  IN  IF raising = {}
      THEN {[raised |-> FALSE,
             controles |-> (synced \ queryset) \cup {validated(B, r) : r \in queryset},
             metrics |-> {get_article_metrics(B, r).metrics : r \in queryset}]}
      ELSE {[raised |-> TRUE,
             controles |-> (synced \ done) \cup {validated(B, r) : r \in done},
             metrics |-> {}] : done \in SUBSET (queryset \ raising)}

GetAllMetrics(numero_article, code_projet, type_projet) ==
  /\ \E out \in get_all_metrics(commandes, controles, numero_article, code_projet,
                                type_projet) :
       /\ controles' = out.controles
       /\ result' = [op |-> "get_all_metrics", numero_article |-> numero_article,
                     code_projet |-> code_projet, type_projet |-> type_projet,
                     raised |-> out.raised, metrics |-> out.metrics]
  /\ UNCHANGED <<commandes, projects, facturations, avancements, syncs>>

\* ------------------------------------ ControleDepenseViewSet.get_metrics
\* the keys k with k.endswith("_reel")
ReelKeys == {"depenses_engagees_reel", "depenses_facturees_reel",
             "fin_chantier_reel", "rentabilite_reel"}

endswith_reel(k) == k \in ReelKeys

\* the dict m restricted to the keys of K
RestrictTo(m, K) == [k \in DOMAIN m \cap K |-> m[k]]

filter_standard(m) == RestrictTo(m, {k \in DOMAIN m : ~endswith_reel(k)})

filter_reel(m) ==
  RestrictTo(m, {k \in DOMAIN m :
                   \/ endswith_reel(k)
                   \/ k \in {"numero_article", "code_projet", "project_name",
                             "type_projet"}})

\* the fields of ControleDepenseMetricsSerializer, in declaration order
SerializerFields ==
  LET Char(n, req, nul) == [name |-> n, kind |-> "char", required |-> req,
                            allow_null |-> nul, has_default |-> FALSE]
      Dec(n, req, nul) == [name |-> n, kind |-> "decimal", required |-> req,
                           allow_null |-> nul, has_default |-> FALSE]
  IN  << Char("numero_article", TRUE, FALSE),
         Char("code_projet", TRUE, FALSE),
         [name |-> "type_projet", kind |-> "choice", required |-> FALSE,
          allow_null |-> FALSE, has_default |-> TRUE],
         Dec("depenses_engagees", TRUE, FALSE),
         Dec("depenses_facturees", TRUE, FALSE),
         Dec("fin_chantier", FALSE, TRUE),
         Dec("rentabilite", FALSE, TRUE),
         Dec("depenses_engagees_reel", TRUE, FALSE),
         Dec("depenses_facturees_reel", TRUE, FALSE),
         Dec("fin_chantier_reel", FALSE, TRUE),
         Dec("rentabilite_reel", FALSE, TRUE),
         Dec("prix_vente", FALSE, TRUE),
         Dec("prix_vente_base", FALSE, TRUE),
         Dec("budget_chef_projet", FALSE, TRUE),
         Dec("budget_chef_projet_base", FALSE, TRUE),
         Dec("reste_a_depenser", FALSE, TRUE),
         Char("fiabilite", FALSE, TRUE),
         Dec("rapport", FALSE, TRUE),
         Dec("rapport_atterrissage", FALSE, TRUE),
         Char("status", FALSE, FALSE) >>

\* the keys whose values get_article_metrics computes as a ratio <<n, d>>
RatioKeys == {"rentabilite", "rentabilite_reel", "rapport", "rapport_atterrissage"}

\* DecimalField(decimal_places=2): the value in hundredths, rounded half to even
quantize(n, d) ==
  LET q == (100 * n) \div d
      r == (100 * n) % d
  IN  IF 2 * r > d THEN q + 1
      ELSE IF 2 * r = d THEN q + (q % 2)
      ELSE q

\* Field.to_representation of the value of key name
field_representation(field, value) ==
  IF field.kind # "decimal" THEN value
  ELSE IF field.name \in RatioKeys THEN quantize(value[1], value[2])
  ELSE quantize(value, 1)

\* Field.get_attribute on a dict without the field's key: the field is passed
\* over when it has a default, is null when allow_null, is passed over when not
\* required, and raises KeyError otherwise
MissingRaises(field) ==
  ~field.has_default /\ ~field.allow_null /\ field.required

MissingNull(field) == ~field.has_default /\ field.allow_null

\* Serializer.to_representation of a dict
serializer_raises(m) ==
  \E i \in DOMAIN SerializerFields :
    SerializerFields[i].name \notin DOMAIN m /\ MissingRaises(SerializerFields[i])

to_representation(m) ==
  LET present == {i \in DOMAIN SerializerFields :
                    \/ SerializerFields[i].name \in DOMAIN m
                    \/ MissingNull(SerializerFields[i])}
      fieldOf(k) == SerializerFields[CHOOSE i \in present : SerializerFields[i].name = k]
  IN  [k \in {SerializerFields[i].name : i \in present} |->
         IF k \in DOMAIN m THEN Some(field_representation(fieldOf(k), m[k]))
         ELSE None]

\* the response of get_metrics once get_all_metrics has returned metrics
metrics_response(metrics, metrics_type) ==
  LET filtered ==
        IF metrics_type = "standard" THEN {filter_standard(m) : m \in metrics}
        ELSE IF metrics_type = "reel" THEN {filter_reel(m) : m \in metrics}
        ELSE metrics
  IN  IF filtered = {} THEN [status |-> 404, data |-> {}]
      ELSE IF \E m \in filtered : serializer_raises(m)
           THEN [status |-> 500, data |-> {}]
           ELSE [status |-> 200, data |-> {to_representation(m) : m \in filtered}]

\* query_params.get("metrics_type", "all")
metrics_type_param(param) == IF param = NoneStr THEN "all" ELSE param

GetMetrics(numero_article, code_projet, type_projet, param) ==
  LET metrics_type == metrics_type_param(param)
      request == [numero_article |-> numero_article, code_projet |-> code_projet,
                  type_projet |-> type_projet, metrics_type |-> metrics_type]
  IN
  /\ IF \/ Truthy(type_projet) /\ type_projet \notin {"FORFAIT", "METRE"}
        \/ metrics_type \notin {"standard", "reel", "all"}
     THEN /\ result' = [op |-> "get_metrics", request |-> request, called |-> FALSE,
                        raised |-> FALSE, metrics |-> {},
                        response |-> [status |-> 400, data |-> {}]]
          /\ UNCHANGED controles
     ELSE \E out \in get_all_metrics(commandes, controles, numero_article,
                                     code_projet, type_projet) :
            /\ controles' = out.controles
            /\ result' = [op |-> "get_metrics", request |-> request, called |-> TRUE,
                          raised |-> out.raised, metrics |-> out.metrics,
                          response |-> IF out.raised
                                       THEN [status |-> 500, data |-> {}]
                                       ELSE metrics_response(out.metrics, metrics_type)]
  /\ UNCHANGED <<commandes, projects, facturations, avancements, syncs>>

\* commandes of the FORFAIT, the METRE and an unlisted project
AllMetricsCommandes ==
  {[numero_document |-> 1, annule |-> "N", statut_document |-> "O",
    date_enregistrement |-> <<0, 1>>, numero_article |-> k[1], code_projet |-> k[2],
    quantite |-> MaxQty, quantite_livree |-> 1, quantite_en_cours |-> 1,
    prix |-> 3, cours_change |-> 1, total_lignes |-> 5] :
     k \in {<<"A1", "PROJ-2024-A">>, <<"A2", "PROJ-2024-B">>, <<"A1", "PROJ-X">>}}

\* records entered by hand: one with its amounts, one without a selling price
AllMetricsControles ==
  {[numero_article |-> "A2", code_projet |-> "PROJ-X", type_projet |-> "FORFAIT",
    prix_vente |-> pv, prix_vente_base |-> Some(4),
    budget_chef_projet |-> Some(1), budget_chef_projet_base |-> Some(3),
    reste_a_depenser |-> Some(1), fiabilite |-> "C"] : pv \in {None, Some(2)}}

AllMetricsArticles == {NoneStr, "A1", "a"}
AllMetricsProjets == {NoneStr, "PROJ-X"}
AllMetricsTypes == {NoneStr, "FORFAIT", "METRE"}
MetricsTypeParams == {NoneStr, "standard", "reel", "all", "both"}

NextAllMetrics ==
  \/ \E c \in AllMetricsCommandes : CommandeSave(c)
  \/ \E rec \in AllMetricsControles : ControleCreate(rec)
  \/ \E a \in AllMetricsArticles, p \in AllMetricsProjets, t \in AllMetricsTypes :
       GetAllMetrics(a, p, t)
  \/ \E p \in AllMetricsProjets, t \in AllMetricsTypes \cup {"REGIE"},
        mt \in MetricsTypeParams :
       GetMetrics(NoneStr, p, t, mt)

SpecAllMetrics == Init /\ [][NextAllMetrics]_vars

\* C17: get_all_metrics(type_projet = T) returns the metrics of exactly the
\* records, among those matching the other filters, whose project type is T:
\* every returned dict has type_projet = T, and every record whose reported type
\* is T has its dict, also when its code is not listed in PROJECT_NAME_MAP
C17_TypeFilterExact ==
  (result.op = "get_all_metrics" /\ ~result.raised /\ Truthy(result.type_projet)) =>
    /\ \A m \in result.metrics : m.type_projet = result.type_projet
    /\ \A r \in all_metrics_queryset(controles, result.numero_article,
                                     result.code_projet, NoneStr) :
         MetricsProjectType(r) = result.type_projet =>
           \E m \in result.metrics : /\ m.numero_article = r.numero_article
                                     /\ m.code_projet = r.code_projet

\* the keys of the dicts that get_all_metrics returned
MetricKeys == UNION {DOMAIN m : m \in result.metrics}

\* C15: get_metrics returns the keys that metrics_type selects: with 'standard'
\* the keys not ending in '_reel', with 'reel' the keys ending in '_reel' and
\* numero_article, code_projet, project_name, type_projet, with 'all' every key;
\* a metrics_type outside {standard, reel, all} or a type_projet outside
\* {FORFAIT, METRE} yields 400 and an empty result 404
C15_MetricsTypeFilter ==
  result.op = "get_metrics" =>
    LET req == result.request
        resp == result.response
        expected ==
          CASE req.metrics_type = "standard" -> MetricKeys \ ReelKeys
            [] req.metrics_type = "reel" ->
                 MetricKeys \cap (ReelKeys \cup {"numero_article", "code_projet",
                                                 "project_name", "type_projet"})
            [] OTHER -> MetricKeys
    IN  /\ (\/ req.metrics_type \notin {"standard", "reel", "all"}
            \/ req.type_projet \notin {NoneStr, "", "FORFAIT", "METRE"})
             => resp.status = 400
        /\ (result.called /\ ~result.raised /\ result.metrics = {})
             => resp.status = 404
        /\ (result.called /\ ~result.raised /\ result.metrics # {}) =>
             /\ resp.status = 200
             /\ \A m \in resp.data : DOMAIN m = expected

\* -------------------------------------- FacturationImportService, the import
\* An uploaded workbook gives, for each of the sheets Facturation and
\* Avancement, None when the workbook has no such sheet, or the sheet: whether
\* it has every column of the mapping, and its rows as runs [row, count].  A
\* Facturation row holds the cells project_code, registration_date (None when
\* blank), total_after_discount and quantity (None when not a number); an
\* Avancement row holds project_code, accounting_date and payment_ht.
BATCH_SIZE == 5000

\* ExcelService.read_multi_sheet_excel: the sheets that could be read
read_sheet(sheet) ==
  LET starts == range(0, CHUNK_SIZE, CHUNK_SIZE)
      chunks == [i \in 1..Len(starts) |->
                   pd_read_excel(sheet.rows, starts[i], CHUNK_SIZE)]
  IN  concat(SelectSeq(chunks, NotEmptyChunk))

read_multi_sheet_excel(file) ==
  LET names == {name \in {"Facturation", "Avancement"} :
                  /\ file[name] # None
                  /\ read_sheet(file[name][1]) # <<>>}
  IN  [name \in names |-> [columns |-> file[name][1].columns,
                           rows |-> read_sheet(file[name][1])]]

\* ExcelService.process_multi_sheet_excel: an empty project code in a sheet
\* raises ExcelProcessingError
process_multi_sheet_excel(file) ==
  LET sheets == read_multi_sheet_excel(file)
  IN  IF \E name \in DOMAIN sheets :
           \E i \in DOMAIN sheets[name].rows : sheets[name].rows[i].row.project_code = ""
      THEN [raised |-> TRUE, sheets |-> <<>>]
      ELSE [raised |-> FALSE, sheets |-> sheets]

\* int(float(quantity)) raises on a cell that is not a number; the row is skipped
facturation_parses(row) == row.quantity # None

facturation_record(row) ==
  [project_code |-> row.project_code, registration_date |-> row.registration_date,
   total_after_discount |-> row.total_after_discount]

avancement_record(row) ==
  [project_code |-> row.project_code, accounting_date |-> row.accounting_date,
   payment_ht |-> row.payment_ht]

\* _parse_facturation_batch: ValidationError when a column is missing, else the
\* records of the rows that parse
_parse_facturation_batch(columns, batch) ==
  IF ~columns THEN [raised |-> TRUE, records |-> <<>>]
  ELSE LET parsed == SelectSeq(batch, LAMBDA run : facturation_parses(run.row))
       IN  [raised |-> FALSE,
            records |-> [i \in DOMAIN parsed |->
                           [row |-> facturation_record(parsed[i].row),
                            count |-> parsed[i].count]]]

\* _parse_avancement_batch: every cell conversion of an Avancement row succeeds
_parse_avancement_batch(columns, batch) ==
  IF ~columns THEN [raised |-> TRUE, records |-> <<>>]
  ELSE [raised |-> FALSE,
        records |-> [i \in DOMAIN batch |->
                       [row |-> avancement_record(batch[i].row),
                        count |-> batch[i].count]]]

\* bulk_create: the date column is NOT NULL, a record without date raises
\* IntegrityError
bulk_create(table, records, date) ==
  IF \E i \in DOMAIN records : records[i].row[date] = None
  THEN [raised |-> TRUE, table |-> table]
  ELSE [raised |-> FALSE, table |-> table (+) SheetBag(records)]

\* the loop over the batches of the Facturation sheet
RECURSIVE import_facturation(_, _, _)
import_facturation(columns, df, acc) ==
  IF df = <<>> THEN acc
  ELSE LET parsed == _parse_facturation_batch(columns, TakeRows(df, BATCH_SIZE))
           created == bulk_create(acc.table, parsed.records, "registration_date")
       IN  IF parsed.raised \/ created.raised THEN [acc EXCEPT !.raised = TRUE]
           ELSE import_facturation(columns, DropRows(df, BATCH_SIZE),
                  [acc EXCEPT !.table = created.table,
                              !.count = @ + SheetLen(parsed.records)])

\* the loop over the batches of the Avancement sheet
RECURSIVE import_avancement(_, _, _)
import_avancement(columns, df, acc) ==
  IF df = <<>> THEN acc
  ELSE LET parsed == _parse_avancement_batch(columns, TakeRows(df, BATCH_SIZE))
           created == bulk_create(acc.table, parsed.records, "accounting_date")
       IN  IF parsed.raised \/ created.raised THEN [acc EXCEPT !.raised = TRUE]
           ELSE import_avancement(columns, DropRows(df, BATCH_SIZE),
                  [acc EXCEPT !.table = created.table,
                              !.count = @ + SheetLen(parsed.records)])

\* process_excel_import: the sheets are read, then both are inserted in one
\* transaction, which an exception rolls back
process_excel_import(F, A, file) ==
  LET read == process_multi_sheet_excel(file)
      start(table) == [raised |-> FALSE, table |-> table, count |-> 0]
      fact == IF "Facturation" \in DOMAIN read.sheets
              THEN import_facturation(read.sheets["Facturation"].columns,
                                      read.sheets["Facturation"].rows, start(F))
              ELSE start(F)
      avan == IF "Avancement" \in DOMAIN read.sheets
              THEN import_avancement(read.sheets["Avancement"].columns,
                                     read.sheets["Avancement"].rows, start(A))
              ELSE start(A)
  IN  IF read.raised \/ fact.raised \/ avan.raised
      THEN [raised |-> TRUE, facturations |-> F, avancements |-> A]
      ELSE [raised |-> FALSE, facturations |-> fact.table, avancements |-> avan.table,
            facturation_count |-> fact.count, avancement_count |-> avan.count]

\* FacturationViewSet.upload_excel -> process_excel_import
ProcessExcelImport(file) ==
  /\ BagCardinality(facturations) <= MaxFactures
  /\ BagCardinality(avancements) <= MaxFactures
  /\ LET out == process_excel_import(facturations, avancements, file)
     IN  /\ facturations' = out.facturations
         /\ avancements' = out.avancements
         /\ result' = [op |-> "process_excel_import", file |-> file,
                       before |-> [facturations |-> facturations,
                                   avancements |-> avancements],
                       out |-> out]
  /\ UNCHANGED <<commandes, projects, controles, syncs>>

\* clean_import_data: the records of a project, or all of them
clean_import_data(table, project_code) ==
  IF Truthy(project_code)
  THEN Filter(table, {r \in DOMAIN table : r.project_code # project_code})
  ELSE EmptyBag

CleanImportData(project_code) ==
  /\ facturations' = clean_import_data(facturations, project_code)
  /\ avancements' = clean_import_data(avancements, project_code)
  /\ result' = [op |-> "clean_import_data", project_code |-> project_code]
  /\ UNCHANGED <<commandes, projects, controles, syncs>>

\* ------------------------------------------------ inputs of the import
FacturationCells(project_code, date, quantity) ==
  [project_code |-> project_code, registration_date |-> date,
   total_after_discount |-> 3, quantity |-> quantity]

AvancementCells(project_code, date) ==
  [project_code |-> project_code, accounting_date |-> date, payment_ht |-> 2]

GoodFacturation == FacturationCells("PROJ-2024-A", <<0, 2>>, Some(1))

GoodAvancement == AvancementCells("PROJ-2024-A", <<0, 2>>)

\* a missing sheet; sheets of a good row, alone or followed by a row whose
\* quantity is no number, whose date is blank or whose project code is empty;
\* a sheet that lacks a column; sheets about CHUNK_SIZE rows long
FacturationSheets ==
  {None}
  \cup {Some([columns |-> TRUE, rows |-> <<[row |-> GoodFacturation, count |-> 1]>> \o tail]) :
          tail \in {<<>>,
                    <<[row |-> FacturationCells("PROJ-2024-B", <<1, 2>>, None), count |-> 1]>>,
                    <<[row |-> FacturationCells("PROJ-2024-B", None, Some(1)), count |-> 1]>>,
                    <<[row |-> FacturationCells("", <<1, 2>>, Some(1)), count |-> 1]>>}}
  \cup {Some([columns |-> FALSE, rows |-> <<[row |-> GoodFacturation, count |-> 1]>>])}
  \cup {Some([columns |-> TRUE,
              rows |-> <<[row |-> GoodFacturation, count |-> CHUNK_SIZE - 1 + n]>>]) :
          n \in 0..(MaxExtraRows + 1)}

AvancementSheets ==
  {None}
  \cup {Some([columns |-> TRUE, rows |-> <<[row |-> GoodAvancement, count |-> 1]>> \o tail]) :
          tail \in {<<>>,
                    <<[row |-> AvancementCells("PROJ-2024-B", None), count |-> 1]>>}}
  \cup {Some([columns |-> FALSE, rows |-> <<[row |-> GoodAvancement, count |-> 1]>>])}
  \cup {Some([columns |-> TRUE,
              rows |-> <<[row |-> GoodAvancement, count |-> CHUNK_SIZE + MaxExtraRows]>>])}

Workbooks == [Facturation : FacturationSheets, Avancement : AvancementSheets]

NextFacturationImport ==
  \/ \E file \in Workbooks : ProcessExcelImport(file)
  \/ \E p \in {NoneStr, "PROJ-2024-A"} : CleanImportData(p)

SpecFacturationImport == Init /\ [][NextFacturationImport]_vars

\* the rows of a sheet of the workbook that can be parsed
ParsedRows(sheet, parses(_)) ==
  IF sheet = None THEN 0
  ELSE SheetLen(SelectSeq(sheet[1].rows, LAMBDA run : parses(run.row)))

AlwaysParses(row) == TRUE

\* C23: process_excel_import is all-or-nothing: when it raises, no Facturation
\* and no Avancement record of the file is stored; when it returns,
\* facturation_count and avancement_count are the numbers of records it
\* inserted, which are the numbers of rows that could be parsed
C23_ImportAllOrNothing ==
  result.op = "process_excel_import" =>
    IF result.out.raised
    THEN /\ facturations = result.before.facturations
         /\ avancements = result.before.avancements
    ELSE /\ result.out.facturation_count
              = BagCardinality(facturations) - BagCardinality(result.before.facturations)
         /\ result.out.avancement_count
              = BagCardinality(avancements) - BagCardinality(result.before.avancements)
         /\ result.out.facturation_count
              = ParsedRows(result.file.Facturation, facturation_parses)
         /\ result.out.avancement_count
              = ParsedRows(result.file.Avancement, AlwaysParses)

====
